---- MODULE Spec2Model ----
(***************************************************************************)
(* A model of the NES 6502 web emulator: the 64 KiB main memory, the CPU   *)
(* register file, the addressing-mode resolvers and instruction handlers   *)
(* of execute.js, the opcode table of decode.js and the tick loop, loader  *)
(* and button handlers of main.js.                                         *)
(*                                                                         *)
(* JavaScript values are modelled by what the engine does with them: the   *)
(* rest-parameter array handed to a resolver is a sequence, an out-of-range*)
(* typed-array read is `undefined`, `array + number` is string             *)
(* concatenation, and a bitwise operator applies ToInt32 to its operands.  *)
(***************************************************************************)
EXTENDS Integers, Sequences, FiniteSets, TLC

(***************************************************************************)
(* Bounds of the model.                                                    *)
(***************************************************************************)
\* ticks after which the model stops counting (totalCycles is unbounded)
MaxTicks == 3

\* decode errors after which the model stops stepping (the console is unbounded)
MaxErrors == 2

(***************************************************************************)
(* Bit arithmetic on non-negative integers.                                *)
(***************************************************************************)
RECURSIVE BitAnd(_, _)
BitAnd(m, n) ==
    IF m = 0 \/ n = 0 THEN 0
    ELSE (m % 2) * (n % 2) + 2 * BitAnd(m \div 2, n \div 2)

RECURSIVE BitOr(_, _)
BitOr(m, n) ==
    IF m = 0 THEN n
    ELSE IF n = 0 THEN m
    ELSE (IF (m % 2) + (n % 2) > 0 THEN 1 ELSE 0) + 2 * BitOr(m \div 2, n \div 2)

RECURSIVE BitXor(_, _)
BitXor(m, n) ==
    IF m = 0 THEN n
    ELSE IF n = 0 THEN m
    ELSE (((m % 2) + (n % 2)) % 2) + 2 * BitXor(m \div 2, n \div 2)

\* s & ~mask
BitClear(s, mask) == s - BitAnd(s, mask)

\* (s & mask) as a JavaScript condition: truthy iff non-zero
Truthy(n) == n # 0

(***************************************************************************)
(* JavaScript values.                                                      *)
(***************************************************************************)
\* the value of an out-of-range Uint8Array read, and of a missing argument
undefined == -1

\* number of decimal digits of String(n), n >= 0
RECURSIVE Digits(_)
Digits(n) == IF n < 10 THEN 1 ELSE 1 + Digits(n \div 10)

RECURSIVE Pow10(_)
Pow10(k) == IF k = 0 THEN 1 ELSE 10 * Pow10(k - 1)

\* ToInt32(ToNumber(args)) for the array `args` of operand bytes: an empty
\* array is "" (0), a one-element array is its element ([undefined] is ""),
\* a longer array is "lo,hi" (NaN, which ToInt32 turns into 0)
ArrayToInt32(args) ==
    IF Len(args) = 1 /\ args[1] # undefined THEN args[1] ELSE 0

\* ToInt32(ToNumber(args + n)): `+` with an array operand concatenates the
\* strings String(args) and String(n)
ArrayPlusNumber(args, n) ==
    IF Len(args) = 0 THEN n
    ELSE IF Len(args) = 1
         THEN IF args[1] = undefined THEN n
              ELSE args[1] * Pow10(Digits(n)) + n
         ELSE 0

\* ToInt32(ToNumber(n + args)), n >= 0
NumberPlusArray(n, args) ==
    IF Len(args) = 0 THEN n
    ELSE IF Len(args) = 1
         THEN IF args[1] = undefined THEN n
              ELSE n * Pow10(Digits(args[1])) + args[1]
         ELSE 0

(***************************************************************************)
(* mainMemory: a Uint8Array of 0x10000 zero bytes.  The model keeps the    *)
(* non-zero bytes only: a function from the addresses that hold a non-zero *)
(* byte to that byte.                                                      *)
(***************************************************************************)
MemSize == 65536

EmptyMemory == [i \in {} |-> 0]

\* mainMemory[i]
Read(mem, i) ==
    IF i < 0 \/ i >= MemSize THEN undefined
    ELSE IF i \in DOMAIN mem THEN mem[i] ELSE 0

\* mainMemory[i] = v : the stored byte is v modulo 256, a write outside the
\* array is ignored
Write(mem, i, v) ==
    IF i < 0 \/ i >= MemSize THEN mem
    ELSE IF v % 256 = 0
         THEN [j \in DOMAIN mem \ {i} |-> mem[j]]
         ELSE [j \in DOMAIN mem \cup {i} |-> IF j = i THEN v % 256 ELSE mem[j]]

(***************************************************************************)
(* The operand a resolver hands to an instruction handler.                 *)
(***************************************************************************)
NumberOperand(n) == [kind |-> "number", val |-> n, arr |-> <<>>]
ArrayOperand(args) == [kind |-> "array", val |-> 0, arr |-> args]
AccumulatorOperand == [kind |-> "accumulator", val |-> 0, arr |-> <<>>]
NullOperand == [kind |-> "null", val |-> 0, arr |-> <<>>]

(***************************************************************************)
(* The arguments a resolver is called with: a byte, the array of operand   *)
(* bytes, or nothing at all (the parameter is then undefined).             *)
(***************************************************************************)
ByteArgument(n) == [type |-> "number", n |-> n, arr |-> <<>>]
ArrayArgument(args) == [type |-> "array", n |-> 0, arr |-> args]
NoArgument == [type |-> "undefined", n |-> 0, arr |-> <<>>]

\* ToInt32(ToNumber(v)), what the operators <<, | and & make of v
ToInt32(v) ==
    CASE v.type = "number" -> v.n
      [] v.type = "array" -> ArrayToInt32(v.arr)
      [] v.type = "undefined" -> 0

\* ToInt32(ToNumber(v + n)): a sum for a number, a concatenation of strings
\* for an array, NaN for undefined
PlusNumber(v, n) ==
    CASE v.type = "number" -> v.n + n
      [] v.type = "array" -> ArrayPlusNumber(v.arr, n)
      [] v.type = "undefined" -> 0

(***************************************************************************)
(* Addressing-mode resolvers (execute.js).                                 *)
(***************************************************************************)
getAccumulator == AccumulatorOperand

\* (operand2 << 8) | operand1
getAbsolute(operand1, operand2) ==
    NumberOperand(BitOr(ToInt32(operand2) * 256, ToInt32(operand1)))

getAbsoluteX(cpu, operand1, operand2) ==
    NumberOperand((BitOr(ToInt32(operand2) * 256, ToInt32(operand1)) + cpu.x) % 65536)

getAbsoluteY(cpu, operand1, operand2) ==
    NumberOperand((BitOr(ToInt32(operand2) * 256, ToInt32(operand1)) + cpu.y) % 65536)

getImmediate(cpu) == NumberOperand((cpu.pc - 1) % 65536)

getImplied == NullOperand

\* getIndirect that takes the high byte from the address after the low
\* byte's, next page included
getIndirect_NextPage(mem, operand1, operand2) ==
    LET addressL == BitOr(ToInt32(operand2) * 256, ToInt32(operand1)) % 65536
        addressH == (addressL + 1) % 65536
    IN  NumberOperand((Read(mem, addressH) * 256 + Read(mem, addressL)) % 65536)

getIndirect(mem, operand1, operand2) ==
    LET addressL == BitOr(ToInt32(operand2) * 256, ToInt32(operand1)) % 65536
        addressH == BitOr(ToInt32(operand2) * 256,
                          PlusNumber(operand1, 1) % 256) % 65536
    IN  NumberOperand((Read(mem, addressH) * 256 + Read(mem, addressL)) % 65536)

\* getXIndexedIndirect that reads the high byte of the pointer at address + 1
\* without the wrap to page zero
getXIndexedIndirect_NoWrap(cpu, mem, operand) ==
    LET address == PlusNumber(operand, cpu.x) % 256
    IN  NumberOperand((Read(mem, address)
                         + Read(mem, address + 1) * 256) % 65536)

getXIndexedIndirect(cpu, mem, operand) ==
    LET address == PlusNumber(operand, cpu.x) % 256
    IN  NumberOperand((Read(mem, address)
                         + Read(mem, (address + 1) % 256) * 256) % 65536)

getIndirectYIndexed(cpu, mem, operand) ==
    LET address == ToInt32(operand) % 256
    IN  NumberOperand((Read(mem, address)
                         + Read(mem, (address + 1) % 256) * 256 + cpu.y) % 65536)

\* (operand & 0x80) ? (operand - 256) : operand -- the operand itself, array
\* or number, when bit 7 is clear
getRelative(operand) ==
    IF Truthy(BitAnd(ToInt32(operand), 128))
    THEN NumberOperand(ToInt32(operand) - 256)
    ELSE IF operand.type = "array" THEN ArrayOperand(operand.arr)
    ELSE NumberOperand(operand.n)

getZeropage(operand) == NumberOperand(ToInt32(operand) % 256)

\* getZeropageXIndexed that lets the sum carry into page 1
getZeropageXIndexed_Carry(cpu, operand) ==
    NumberOperand(PlusNumber(operand, cpu.x))

getZeropageXIndexed(cpu, operand) ==
    NumberOperand(PlusNumber(operand, cpu.x) % 256)

getZeropageYIndexed(cpu, operand) ==
    NumberOperand(PlusNumber(operand, cpu.y) % 256)

\* address_mode_handlers[addressing_mode](operand1, operand2)
address_mode_handlers(addressing_mode, cpu, mem, operand1, operand2) ==
    CASE addressing_mode = "A" -> getAccumulator
      [] addressing_mode = "abs" -> getAbsolute(operand1, operand2)
      [] addressing_mode = "abs,X" -> getAbsoluteX(cpu, operand1, operand2)
      [] addressing_mode = "abs,Y" -> getAbsoluteY(cpu, operand1, operand2)
      [] addressing_mode = "#" -> getImmediate(cpu)
      [] addressing_mode = "impl" -> getImplied
      [] addressing_mode = "ind" -> getIndirect(mem, operand1, operand2)
      [] addressing_mode = "X,ind" -> getXIndexedIndirect(cpu, mem, operand1)
      [] addressing_mode = "ind,Y" -> getIndirectYIndexed(cpu, mem, operand1)
      [] addressing_mode = "rel" -> getRelative(operand1)
      [] addressing_mode = "zpg" -> getZeropage(operand1)
      [] addressing_mode = "zpg,X" -> getZeropageXIndexed(cpu, operand1)
      [] addressing_mode = "zpg,Y" -> getZeropageYIndexed(cpu, operand1)

(***************************************************************************)
(* Instruction handlers (execute.js).  A handler takes the register file   *)
(* `cpu`, the memory `mem` and its resolved operand, and yields the        *)
(* register file and memory it leaves behind.                              *)
(***************************************************************************)
State(cpu, mem) == [cpu |-> cpu, mem |-> mem]

\* status = cond ? (status | mask) : (status & ~mask)
SetFlagIf(status, mask, cond) ==
    IF cond THEN BitOr(status, mask) ELSE BitClear(status, mask)

\* Zero and Negative that are set when the result asks for it and never cleared
ZeroNegative_NeverCleared(status, result) ==
    LET status1 == IF result = 0 THEN BitOr(status, 2) ELSE status
    IN  IF Truthy(BitAnd(result, 128)) THEN BitOr(status1, 128) ELSE status1

\* the two statements that end most handlers: Zero from result === 0x00,
\* then Negative from result & 0x80
ZeroNegative(status, result) ==
    SetFlagIf(SetFlagIf(status, 2, result = 0), 128, Truthy(BitAnd(result, 128)))

\* a push that decrements sp without the & 0xFF
Push_WithoutWrap(cpu, mem, v) ==
    State([cpu EXCEPT !.sp = cpu.sp - 1], Write(mem, 256 + cpu.sp, v))

\* mainMemory[0x0100 + sp] = v; sp = (sp - 1) & 0xFF
Push(cpu, mem, v) ==
    State([cpu EXCEPT !.sp = (cpu.sp - 1) % 256], Write(mem, 256 + cpu.sp, v))

\* ADC that leaves the carry-in out of the sum
ADC_WithoutCarryIn(cpu, mem, memory_location) ==
    LET value == Read(mem, memory_location.val)
        sum == cpu.a + value
        status1 == SetFlagIf(cpu.status, 1, sum > 255)
        result == sum % 256
        status2 == SetFlagIf(status1, 64,
                       BitAnd(BitXor(cpu.a, value), 128) = 0
                       /\ BitAnd(BitXor(cpu.a, result), 128) # 0)
    IN  State([cpu EXCEPT !.a = result, !.status = ZeroNegative(status2, result)], mem)

ADC(cpu, mem, memory_location) ==
    LET value == Read(mem, memory_location.val)
        carry == IF Truthy(BitAnd(cpu.status, 1)) THEN 1 ELSE 0
        sum == cpu.a + value + carry
        status1 == SetFlagIf(cpu.status, 1, sum > 255)
        result == sum % 256
        status2 == SetFlagIf(status1, 64,
                       BitAnd(BitXor(cpu.a, value), 128) = 0
                       /\ BitAnd(BitXor(cpu.a, result), 128) # 0)
    IN  State([cpu EXCEPT !.a = result, !.status = ZeroNegative(status2, result)], mem)

AND(cpu, mem, memory_location) ==
    LET result == BitAnd(cpu.a, Read(mem, memory_location.val))
    IN  State([cpu EXCEPT !.a = result, !.status = ZeroNegative(cpu.status, result)], mem)

ASL(cpu, mem, memory_location) ==
    IF memory_location.kind = "accumulator"
    THEN LET status1 == SetFlagIf(cpu.status, 1, Truthy(BitAnd(cpu.a, 128)))
             result == (cpu.a * 2) % 256
         IN  State([cpu EXCEPT !.a = result,
                               !.status = ZeroNegative(status1, result)], mem)
    ELSE LET value == Read(mem, memory_location.val)
             status1 == SetFlagIf(cpu.status, 1, Truthy(BitAnd(value, 128)))
             mem1 == Write(mem, memory_location.val, (value * 2) % 256)
         IN  State([cpu EXCEPT !.status =
                        ZeroNegative(status1, Read(mem1, memory_location.val))], mem1)

\* the body shared by the eight branch handlers: when the tested condition
\* holds, new_pc = pc + displacement; pc = new_pc & 0xFFFF
Branch(cpu, mem, displacement, taken) ==
    IF taken
    THEN LET new_pc == IF displacement.kind = "array"
                       THEN NumberPlusArray(cpu.pc, displacement.arr)
                       ELSE cpu.pc + displacement.val
         IN  State([cpu EXCEPT !.pc = new_pc % 65536], mem)
    ELSE State(cpu, mem)

BCC(cpu, mem, displacement) ==
    Branch(cpu, mem, displacement, ~Truthy(BitAnd(cpu.status, 1)))

BCS(cpu, mem, displacement) ==
    Branch(cpu, mem, displacement, Truthy(BitAnd(cpu.status, 1)))

BEQ(cpu, mem, displacement) ==
    Branch(cpu, mem, displacement, Truthy(BitAnd(cpu.status, 2)))

BIT(cpu, mem, memory_location) ==
    LET value == Read(mem, memory_location.val)
        result == BitAnd(cpu.a, value)
        status1 == SetFlagIf(cpu.status, 2, result = 0)
        status2 == SetFlagIf(status1, 128, Truthy(BitAnd(value, 8)))
        status3 == SetFlagIf(status2, 64, Truthy(BitAnd(value, 64)))
    IN  State([cpu EXCEPT !.status = status3], mem)

BMI(cpu, mem, displacement) ==
    Branch(cpu, mem, displacement, Truthy(BitAnd(cpu.status, 128)))

BNE(cpu, mem, displacement) ==
    Branch(cpu, mem, displacement, ~Truthy(BitAnd(cpu.status, 2)))

BPL(cpu, mem, displacement) ==
    Branch(cpu, mem, displacement, ~Truthy(BitAnd(cpu.status, 128)))

\* BRK that pushes the status register as it stands, Break bit not set
BRK_PushesStatusAsIs(cpu, mem) ==
    LET returnAddress == (cpu.pc + 1) % 65536
        s1 == Push(cpu, mem, (returnAddress \div 256) % 256)
        s2 == Push(s1.cpu, s1.mem, returnAddress % 256)
        s3 == Push(s2.cpu, s2.mem, s2.cpu.status)
        interrupt_handler_address ==
            BitOr(Read(s3.mem, 65535) * 256, Read(s3.mem, 65534))
    IN  State([s3.cpu EXCEPT !.pc = interrupt_handler_address % 65536], s3.mem)

BRK(cpu, mem) ==
    LET returnAddress == (cpu.pc + 1) % 65536
        s1 == Push(cpu, mem, (returnAddress \div 256) % 256)
        s2 == Push(s1.cpu, s1.mem, returnAddress % 256)
        status1 == BitOr(s2.cpu.status, 16)
        s3 == Push([s2.cpu EXCEPT !.status = status1], s2.mem, status1)
        interrupt_address_low == Read(s3.mem, 65534)
        interrupt_address_high == Read(s3.mem, 65535)
        interrupt_handler_address ==
            BitOr(interrupt_address_high * 256, interrupt_address_low)
    IN  State([s3.cpu EXCEPT !.pc = interrupt_handler_address % 65536], s3.mem)

BVC(cpu, mem, displacement) ==
    Branch(cpu, mem, displacement, ~Truthy(BitAnd(cpu.status, 4)))

BVS(cpu, mem, displacement) ==
    Branch(cpu, mem, displacement, Truthy(BitAnd(cpu.status, 4)))

CLC(cpu, mem) == State([cpu EXCEPT !.status = BitClear(cpu.status, 1)], mem)

\* CLD with the mask of CLC
CLD_ClearsCarry(cpu, mem) == State([cpu EXCEPT !.status = BitClear(cpu.status, 1)], mem)

CLD(cpu, mem) == State([cpu EXCEPT !.status = BitClear(cpu.status, 8)], mem)

CLI(cpu, mem) == State([cpu EXCEPT !.status = BitClear(cpu.status, 4)], mem)

CLV(cpu, mem) == State([cpu EXCEPT !.status = BitClear(cpu.status, 64)], mem)

\* the body shared by CMP, CPX and CPY: result = (reg - value) & 0xFF, then
\* Carry from result >= 0, Zero from result === 0, Negative from result & 0x80
Compare(cpu, mem, memory_location, reg) ==
    LET value == Read(mem, memory_location.val)
        result == (reg - value) % 256
        status1 == SetFlagIf(cpu.status, 1, result >= 0)
    IN  State([cpu EXCEPT !.status = ZeroNegative(status1, result)], mem)

CMP(cpu, mem, memory_location) == Compare(cpu, mem, memory_location, cpu.a)

CPX(cpu, mem, memory_location) == Compare(cpu, mem, memory_location, cpu.x)

CPY(cpu, mem, memory_location) == Compare(cpu, mem, memory_location, cpu.y)

DEC(cpu, mem, memory_location) ==
    LET result == (Read(mem, memory_location.val) - 1) % 256
    IN  State([cpu EXCEPT !.status = ZeroNegative(cpu.status, result)],
              Write(mem, memory_location.val, result))

DEX(cpu, mem) ==
    LET result == (cpu.x - 1) % 256
    IN  State([cpu EXCEPT !.x = result, !.status = ZeroNegative(cpu.status, result)], mem)

DEY(cpu, mem) ==
    LET result == (cpu.y - 1) % 256
    IN  State([cpu EXCEPT !.y = result, !.status = ZeroNegative(cpu.status, result)], mem)

EOR(cpu, mem, memory_location) ==
    LET result == BitXor(cpu.a, Read(mem, memory_location.val))
    IN  State([cpu EXCEPT !.a = result, !.status = ZeroNegative(cpu.status, result)], mem)

INC(cpu, mem, memory_location) ==
    LET result == (Read(mem, memory_location.val) + 1) % 256
    IN  State([cpu EXCEPT !.status = ZeroNegative(cpu.status, result)],
              Write(mem, memory_location.val, result))

\* the code computes (x - 1) & 0xFF here
INX(cpu, mem) ==
    LET result == (cpu.x - 1) % 256
    IN  State([cpu EXCEPT !.x = result, !.status = ZeroNegative(cpu.status, result)], mem)

\* the code computes (y - 1) & 0xFF here
INY(cpu, mem) ==
    LET result == (cpu.y - 1) % 256
    IN  State([cpu EXCEPT !.y = result, !.status = ZeroNegative(cpu.status, result)], mem)

JMP(cpu, mem, memory_location) ==
    State([cpu EXCEPT !.pc = memory_location.val % 65536], mem)

JSR(cpu, mem, memory_location) ==
    LET returnAddress == (cpu.pc - 1) % 65536
        s1 == Push(cpu, mem, (returnAddress \div 256) % 256)
        s2 == Push(s1.cpu, s1.mem, returnAddress % 256)
    IN  State([s2.cpu EXCEPT !.pc = memory_location.val % 65536], s2.mem)

LDA(cpu, mem, memory_location) ==
    LET value == Read(mem, memory_location.val)
    IN  State([cpu EXCEPT !.a = value, !.status = ZeroNegative(cpu.status, value)], mem)

LDX(cpu, mem, memory_location) ==
    LET value == Read(mem, memory_location.val)
    IN  State([cpu EXCEPT !.x = value, !.status = ZeroNegative(cpu.status, value)], mem)

LDY(cpu, mem, memory_location) ==
    LET value == Read(mem, memory_location.val)
    IN  State([cpu EXCEPT !.y = value, !.status = ZeroNegative(cpu.status, value)], mem)

LSR(cpu, mem, memory_location) ==
    IF memory_location.kind = "accumulator"
    THEN LET status1 == SetFlagIf(cpu.status, 1, Truthy(BitAnd(cpu.a, 1)))
             result == (cpu.a \div 2) % 256
         IN  State([cpu EXCEPT !.a = result,
                               !.status = ZeroNegative(status1, result)], mem)
    ELSE LET value == Read(mem, memory_location.val)
             status1 == SetFlagIf(cpu.status, 1, Truthy(BitAnd(value, 1)))
             mem1 == Write(mem, memory_location.val, (value \div 2) % 256)
         IN  State([cpu EXCEPT !.status =
                        ZeroNegative(status1, Read(mem1, memory_location.val))], mem1)

NOP(cpu, mem) == State(cpu, mem)

ORA(cpu, mem, memory_location) ==
    LET result == BitOr(cpu.a, Read(mem, memory_location.val))
    IN  State([cpu EXCEPT !.a = result, !.status = ZeroNegative(cpu.status, result)], mem)

PHA(cpu, mem) == Push(cpu, mem, cpu.a)

\* status |= 0x30 is an assignment to the status register itself
PHP(cpu, mem) ==
    LET status1 == BitOr(cpu.status, 48)
    IN  Push([cpu EXCEPT !.status = status1], mem, status1)

\* PLA that reads the stack before it increments sp
PLA_ReadsBeforeIncrement(cpu, mem) ==
    LET value == Read(mem, 256 + cpu.sp)
    IN  State([cpu EXCEPT !.sp = (cpu.sp + 1) % 256, !.a = value,
                          !.status = ZeroNegative(cpu.status, value)], mem)

PLA(cpu, mem) ==
    LET sp1 == (cpu.sp + 1) % 256
        value == Read(mem, 256 + sp1)
    IN  State([cpu EXCEPT !.sp = sp1, !.a = value,
                          !.status = ZeroNegative(cpu.status, value)], mem)

PLP(cpu, mem) ==
    LET sp1 == (cpu.sp + 1) % 256
    IN  State([cpu EXCEPT !.sp = sp1,
                          !.status = BitClear(Read(mem, 256 + sp1), 48)], mem)

\* ROL that leaves bit 0 of the result clear, as ASL does
ROL_WithoutCarryIn(cpu, mem, memory_location) ==
    IF memory_location.kind = "accumulator"
    THEN LET status1 == SetFlagIf(cpu.status, 1, Truthy(BitAnd(cpu.a, 128)))
             result == (cpu.a * 2) % 256
         IN  State([cpu EXCEPT !.a = result,
                               !.status = ZeroNegative(status1, result)], mem)
    ELSE LET value == Read(mem, memory_location.val)
             status1 == SetFlagIf(cpu.status, 1, Truthy(BitAnd(value, 128)))
             mem1 == Write(mem, memory_location.val, (value * 2) % 256)
         IN  State([cpu EXCEPT !.status =
                        ZeroNegative(status1, Read(mem1, memory_location.val))], mem1)

ROL(cpu, mem, memory_location) ==
    LET carry == BitAnd(cpu.status, 1)
    IN  IF memory_location.kind = "accumulator"
        THEN LET status1 == SetFlagIf(cpu.status, 1, Truthy(BitAnd(cpu.a, 128)))
                 result == BitOr((cpu.a * 2) % 256, carry)
             IN  State([cpu EXCEPT !.a = result,
                                   !.status = ZeroNegative(status1, result)], mem)
        ELSE LET value == Read(mem, memory_location.val)
                 status1 == SetFlagIf(cpu.status, 1, Truthy(BitAnd(value, 128)))
                 mem1 == Write(mem, memory_location.val, (value * 2) % 256)
                 mem2 == Write(mem1, memory_location.val,
                               BitOr(Read(mem1, memory_location.val), carry))
             IN  State([cpu EXCEPT !.status =
                            ZeroNegative(status1, Read(mem2, memory_location.val))], mem2)

\* ROR that leaves bit 7 of the result clear, as LSR does
ROR_WithoutCarryIn(cpu, mem, memory_location) ==
    IF memory_location.kind = "accumulator"
    THEN LET status1 == SetFlagIf(cpu.status, 1, Truthy(BitAnd(cpu.a, 1)))
             result == (cpu.a \div 2) % 256
         IN  State([cpu EXCEPT !.a = result,
                               !.status = ZeroNegative(status1, result)], mem)
    ELSE LET value == Read(mem, memory_location.val)
             status1 == SetFlagIf(cpu.status, 1, Truthy(BitAnd(value, 1)))
             mem1 == Write(mem, memory_location.val, (value \div 2) % 256)
         IN  State([cpu EXCEPT !.status =
                        ZeroNegative(status1, Read(mem1, memory_location.val))], mem1)

ROR(cpu, mem, memory_location) ==
    LET carry == BitAnd(cpu.status, 1)
    IN  IF memory_location.kind = "accumulator"
        THEN LET status1 == SetFlagIf(cpu.status, 1, Truthy(BitAnd(cpu.a, 1)))
                 result == BitOr((cpu.a \div 2) % 256, carry * 128)
             IN  State([cpu EXCEPT !.a = result,
                                   !.status = ZeroNegative(status1, result)], mem)
        ELSE LET value == Read(mem, memory_location.val)
                 status1 == SetFlagIf(cpu.status, 1, Truthy(BitAnd(value, 1)))
                 mem1 == Write(mem, memory_location.val, (value \div 2) % 256)
                 mem2 == Write(mem1, memory_location.val,
                               BitOr(Read(mem1, memory_location.val), carry * 128))
             IN  State([cpu EXCEPT !.status =
                            ZeroNegative(status1, Read(mem2, memory_location.val))], mem2)

\* RTI that takes the status byte as it was pushed, Break and bit 5 included
RTI_KeepsBreak(cpu, mem) ==
    LET sp1 == (cpu.sp + 1) % 256
        status1 == Read(mem, 256 + sp1)
        sp2 == (sp1 + 1) % 256
        PC_low == Read(mem, 256 + sp2)
        sp3 == (sp2 + 1) % 256
        PC_high == Read(mem, 256 + sp3)
    IN  State([cpu EXCEPT !.sp = sp3, !.status = status1,
                          !.pc = BitOr(PC_high * 256, PC_low) % 65536], mem)

RTI(cpu, mem) ==
    LET sp1 == (cpu.sp + 1) % 256
        status1 == BitClear(Read(mem, 256 + sp1), 48)
        sp2 == (sp1 + 1) % 256
        PC_low == Read(mem, 256 + sp2)
        sp3 == (sp2 + 1) % 256
        PC_high == Read(mem, 256 + sp3)
    IN  State([cpu EXCEPT !.sp = sp3, !.status = status1,
                          !.pc = BitOr(PC_high * 256, PC_low) % 65536], mem)

\* RTS that leaves pc at the pulled address, without the increment
RTS_WithoutIncrement(cpu, mem) ==
    LET sp1 == (cpu.sp + 1) % 256
        PC_low == Read(mem, 256 + sp1)
        sp2 == (sp1 + 1) % 256
        PC_high == Read(mem, 256 + sp2)
    IN  State([cpu EXCEPT !.sp = sp2, !.pc = BitOr(PC_high * 256, PC_low) % 65536], mem)

RTS(cpu, mem) ==
    LET sp1 == (cpu.sp + 1) % 256
        PC_low == Read(mem, 256 + sp1)
        sp2 == (sp1 + 1) % 256
        PC_high == Read(mem, 256 + sp2)
        pc1 == BitOr(PC_high * 256, PC_low) % 65536
    IN  State([cpu EXCEPT !.sp = sp2, !.pc = (pc1 + 1) % 65536], mem)

\* SBC with the overflow test of ADC: operands of the same sign
SBC_OverflowLikeADC(cpu, mem, memory_location) ==
    LET value == Read(mem, memory_location.val)
        carry == IF Truthy(BitAnd(cpu.status, 1)) THEN 1 ELSE 0
        diff == cpu.a - value - (1 - carry)
        status1 == IF diff < 0 THEN BitClear(cpu.status, 1) ELSE BitOr(cpu.status, 1)
        result == diff % 256
        status2 == SetFlagIf(status1, 64,
                       BitAnd(BitXor(cpu.a, value), 128) = 0
                       /\ BitAnd(BitXor(cpu.a, result), 128) # 0)
    IN  State([cpu EXCEPT !.a = result, !.status = ZeroNegative(status2, result)], mem)

\* SBC that takes the carry flag itself for the borrow
SBC_CarryAsBorrow(cpu, mem, memory_location) ==
    LET value == Read(mem, memory_location.val)
        carry == IF Truthy(BitAnd(cpu.status, 1)) THEN 1 ELSE 0
        diff == cpu.a - value - carry
        status1 == IF diff < 0 THEN BitClear(cpu.status, 1) ELSE BitOr(cpu.status, 1)
        result == diff % 256
        status2 == SetFlagIf(status1, 64,
                       BitAnd(BitXor(cpu.a, value), 128) # 0
                       /\ BitAnd(BitXor(cpu.a, result), 128) # 0)
    IN  State([cpu EXCEPT !.a = result, !.status = ZeroNegative(status2, result)], mem)

SBC(cpu, mem, memory_location) ==
    LET value == Read(mem, memory_location.val)
        carry == IF Truthy(BitAnd(cpu.status, 1)) THEN 1 ELSE 0
        diff == cpu.a - value - (1 - carry)
        status1 == IF diff < 0 THEN BitClear(cpu.status, 1) ELSE BitOr(cpu.status, 1)
        result == diff % 256
        status2 == SetFlagIf(status1, 64,
                       BitAnd(BitXor(cpu.a, value), 128) # 0
                       /\ BitAnd(BitXor(cpu.a, result), 128) # 0)
    IN  State([cpu EXCEPT !.a = result, !.status = ZeroNegative(status2, result)], mem)

SEC(cpu, mem) == State([cpu EXCEPT !.status = BitOr(cpu.status, 1)], mem)

SED(cpu, mem) == State([cpu EXCEPT !.status = BitOr(cpu.status, 8)], mem)

SEI(cpu, mem) == State([cpu EXCEPT !.status = BitOr(cpu.status, 4)], mem)

STA(cpu, mem, memory_location) ==
    State(cpu, Write(mem, memory_location.val, cpu.a))

STX(cpu, mem, memory_location) ==
    State(cpu, Write(mem, memory_location.val, cpu.x))

STY(cpu, mem, memory_location) ==
    State(cpu, Write(mem, memory_location.val, cpu.y))

TAX(cpu, mem) ==
    State([cpu EXCEPT !.x = cpu.a, !.status = ZeroNegative(cpu.status, cpu.a)], mem)

TAY(cpu, mem) ==
    State([cpu EXCEPT !.y = cpu.a, !.status = ZeroNegative(cpu.status, cpu.a)], mem)

TSX(cpu, mem) ==
    State([cpu EXCEPT !.x = cpu.sp, !.status = ZeroNegative(cpu.status, cpu.sp)], mem)

TXA(cpu, mem) ==
    State([cpu EXCEPT !.a = cpu.x, !.status = ZeroNegative(cpu.status, cpu.x)], mem)

TXS(cpu, mem) == State([cpu EXCEPT !.sp = cpu.x], mem)

TYA(cpu, mem) ==
    State([cpu EXCEPT !.a = cpu.y, !.status = ZeroNegative(cpu.status, cpu.y)], mem)

\* execute[instruction_name](instruction_operand)
execute(instruction_name, cpu, mem, operand) ==
    CASE instruction_name = "ADC" -> ADC(cpu, mem, operand)
      [] instruction_name = "AND" -> AND(cpu, mem, operand)
      [] instruction_name = "ASL" -> ASL(cpu, mem, operand)
      [] instruction_name = "BCC" -> BCC(cpu, mem, operand)
      [] instruction_name = "BCS" -> BCS(cpu, mem, operand)
      [] instruction_name = "BEQ" -> BEQ(cpu, mem, operand)
      [] instruction_name = "BIT" -> BIT(cpu, mem, operand)
      [] instruction_name = "BMI" -> BMI(cpu, mem, operand)
      [] instruction_name = "BNE" -> BNE(cpu, mem, operand)
      [] instruction_name = "BPL" -> BPL(cpu, mem, operand)
      [] instruction_name = "BRK" -> BRK(cpu, mem)
      [] instruction_name = "BVC" -> BVC(cpu, mem, operand)
      [] instruction_name = "BVS" -> BVS(cpu, mem, operand)
      [] instruction_name = "CLC" -> CLC(cpu, mem)
      [] instruction_name = "CLD" -> CLD(cpu, mem)
      [] instruction_name = "CLI" -> CLI(cpu, mem)
      [] instruction_name = "CLV" -> CLV(cpu, mem)
      [] instruction_name = "CMP" -> CMP(cpu, mem, operand)
      [] instruction_name = "CPX" -> CPX(cpu, mem, operand)
      [] instruction_name = "CPY" -> CPY(cpu, mem, operand)
      [] instruction_name = "DEC" -> DEC(cpu, mem, operand)
      [] instruction_name = "DEX" -> DEX(cpu, mem)
      [] instruction_name = "DEY" -> DEY(cpu, mem)
      [] instruction_name = "EOR" -> EOR(cpu, mem, operand)
      [] instruction_name = "INC" -> INC(cpu, mem, operand)
      [] instruction_name = "INX" -> INX(cpu, mem)
      [] instruction_name = "INY" -> INY(cpu, mem)
      [] instruction_name = "JMP" -> JMP(cpu, mem, operand)
      [] instruction_name = "JSR" -> JSR(cpu, mem, operand)
      [] instruction_name = "LDA" -> LDA(cpu, mem, operand)
      [] instruction_name = "LDX" -> LDX(cpu, mem, operand)
      [] instruction_name = "LDY" -> LDY(cpu, mem, operand)
      [] instruction_name = "LSR" -> LSR(cpu, mem, operand)
      [] instruction_name = "NOP" -> NOP(cpu, mem)
      [] instruction_name = "ORA" -> ORA(cpu, mem, operand)
      [] instruction_name = "PHA" -> PHA(cpu, mem)
      [] instruction_name = "PHP" -> PHP(cpu, mem)
      [] instruction_name = "PLA" -> PLA(cpu, mem)
      [] instruction_name = "PLP" -> PLP(cpu, mem)
      [] instruction_name = "ROL" -> ROL(cpu, mem, operand)
      [] instruction_name = "ROR" -> ROR(cpu, mem, operand)
      [] instruction_name = "RTI" -> RTI(cpu, mem)
      [] instruction_name = "RTS" -> RTS(cpu, mem)
      [] instruction_name = "SBC" -> SBC(cpu, mem, operand)
      [] instruction_name = "SEC" -> SEC(cpu, mem)
      [] instruction_name = "SED" -> SED(cpu, mem)
      [] instruction_name = "SEI" -> SEI(cpu, mem)
      [] instruction_name = "STA" -> STA(cpu, mem, operand)
      [] instruction_name = "STX" -> STX(cpu, mem, operand)
      [] instruction_name = "STY" -> STY(cpu, mem, operand)
      [] instruction_name = "TAX" -> TAX(cpu, mem)
      [] instruction_name = "TAY" -> TAY(cpu, mem)
      [] instruction_name = "TSX" -> TSX(cpu, mem)
      [] instruction_name = "TXA" -> TXA(cpu, mem)
      [] instruction_name = "TXS" -> TXS(cpu, mem)
      [] instruction_name = "TYA" -> TYA(cpu, mem)

(***************************************************************************)
(* The opcode table (decode.js).  The OpCode constructor stores the name,  *)
(* the addressing mode and the size; it stores no cycle count.             *)
(***************************************************************************)
OpCode(instruction_name, addressing_mode, size) ==
    [instruction_name |-> instruction_name,
     addressing_mode |-> addressing_mode,
     size |-> size]

opcode_matrix ==
    0 :> OpCode("BRK", "impl", 1) @@
    1 :> OpCode("ORA", "X,ind", 2) @@
    5 :> OpCode("ORA", "zpg", 2) @@
    6 :> OpCode("ASL", "zpg", 2) @@
    8 :> OpCode("PHP", "impl", 1) @@
    9 :> OpCode("ORA", "#", 2) @@
    10 :> OpCode("ASL", "A", 1) @@
    13 :> OpCode("ORA", "abs", 3) @@
    14 :> OpCode("ASL", "abs", 3) @@
    16 :> OpCode("BPL", "rel", 2) @@
    17 :> OpCode("ORA", "ind,Y", 2) @@
    21 :> OpCode("ORA", "zpg,X", 2) @@
    22 :> OpCode("ASL", "zpg,X", 2) @@
    24 :> OpCode("CLC", "impl", 1) @@
    25 :> OpCode("ORA", "abs,Y", 3) @@
    29 :> OpCode("ORA", "abs,X", 3) @@
    30 :> OpCode("ASL", "abs,X", 3) @@
    32 :> OpCode("JSR", "abs", 3) @@
    33 :> OpCode("AND", "X,ind", 2) @@
    36 :> OpCode("BIT", "zpg", 2) @@
    37 :> OpCode("AND", "zpg", 2) @@
    38 :> OpCode("ROL", "zpg", 2) @@
    40 :> OpCode("PLP", "impl", 1) @@
    41 :> OpCode("AND", "#", 2) @@
    42 :> OpCode("ROL", "A", 1) @@
    44 :> OpCode("BIT", "abs", 3) @@
    45 :> OpCode("AND", "abs", 3) @@
    46 :> OpCode("ROL", "abs", 3) @@
    48 :> OpCode("BMI", "rel", 2) @@
    49 :> OpCode("AND", "ind,Y", 2) @@
    53 :> OpCode("AND", "zpg,X", 2) @@
    54 :> OpCode("ROL", "zpg,X", 2) @@
    56 :> OpCode("SEC", "impl", 1) @@
    57 :> OpCode("AND", "abs,Y", 3) @@
    61 :> OpCode("AND", "abs,X", 3) @@
    62 :> OpCode("ROL", "abs,X", 3) @@
    64 :> OpCode("RTI", "impl", 1) @@
    65 :> OpCode("EOR", "X,ind", 2) @@
    69 :> OpCode("EOR", "zpg", 2) @@
    70 :> OpCode("LSR", "zpg", 2) @@
    72 :> OpCode("PHA", "impl", 1) @@
    73 :> OpCode("EOR", "#", 2) @@
    74 :> OpCode("LSR", "A", 1) @@
    76 :> OpCode("JMP", "abs", 3) @@
    77 :> OpCode("EOR", "abs", 3) @@
    78 :> OpCode("LSR", "abs", 3) @@
    80 :> OpCode("BVC", "rel", 2) @@
    81 :> OpCode("EOR", "ind,Y", 2) @@
    85 :> OpCode("EOR", "zpg,X", 2) @@
    86 :> OpCode("LSR", "zpg,X", 2) @@
    88 :> OpCode("CLI", "impl", 1) @@
    89 :> OpCode("EOR", "abs,Y", 3) @@
    93 :> OpCode("EOR", "abs,X", 3) @@
    94 :> OpCode("LSR", "abs,X", 3) @@
    96 :> OpCode("RTS", "impl", 1) @@
    97 :> OpCode("ADC", "X,ind", 2) @@
    101 :> OpCode("ADC", "zpg", 2) @@
    102 :> OpCode("ROR", "zpg", 2) @@
    104 :> OpCode("PLA", "impl", 1) @@
    105 :> OpCode("ADC", "#", 2) @@
    106 :> OpCode("ROR", "A", 1) @@
    108 :> OpCode("JMP", "ind", 3) @@
    109 :> OpCode("ADC", "abs", 3) @@
    110 :> OpCode("ROR", "abs", 3) @@
    112 :> OpCode("BVS", "rel", 2) @@
    113 :> OpCode("ADC", "ind,Y", 2) @@
    117 :> OpCode("ADC", "zpg,X", 2) @@
    118 :> OpCode("ROR", "zpg,X", 2) @@
    120 :> OpCode("SEI", "impl", 1) @@
    121 :> OpCode("ADC", "abs,Y", 3) @@
    125 :> OpCode("ADC", "abs,X", 3) @@
    126 :> OpCode("ROR", "abs,X", 3) @@
    129 :> OpCode("STA", "X,ind", 2) @@
    132 :> OpCode("STY", "zpg", 2) @@
    133 :> OpCode("STA", "zpg", 2) @@
    134 :> OpCode("STX", "zpg", 2) @@
    136 :> OpCode("DEY", "impl", 1) @@
    138 :> OpCode("TXA", "impl", 1) @@
    140 :> OpCode("STY", "abs", 3) @@
    141 :> OpCode("STA", "abs", 3) @@
    142 :> OpCode("STX", "abs", 3) @@
    144 :> OpCode("BCC", "rel", 2) @@
    145 :> OpCode("STA", "ind,Y", 2) @@
    148 :> OpCode("STY", "zpg,X", 2) @@
    149 :> OpCode("STA", "zpg,X", 2) @@
    150 :> OpCode("STX", "zpg,Y", 2) @@
    152 :> OpCode("TYA", "impl", 1) @@
    153 :> OpCode("STA", "abs,Y", 3) @@
    154 :> OpCode("TXS", "impl", 1) @@
    157 :> OpCode("STA", "abs,X", 3) @@
    160 :> OpCode("LDY", "#", 2) @@
    161 :> OpCode("LDA", "X,ind", 2) @@
    162 :> OpCode("LDX", "#", 2) @@
    164 :> OpCode("LDY", "zpg", 2) @@
    165 :> OpCode("LDA", "zpg", 2) @@
    166 :> OpCode("LDX", "zpg", 2) @@
    168 :> OpCode("TAY", "impl", 1) @@
    169 :> OpCode("LDA", "#", 2) @@
    170 :> OpCode("TAX", "impl", 1) @@
    172 :> OpCode("LDY", "abs", 3) @@
    173 :> OpCode("LDA", "abs", 3) @@
    174 :> OpCode("LDX", "abs", 3) @@
    176 :> OpCode("BCS", "rel", 2) @@
    177 :> OpCode("LDA", "ind,Y", 2) @@
    180 :> OpCode("LDY", "zpg,X", 2) @@
    181 :> OpCode("LDA", "zpg,X", 2) @@
    182 :> OpCode("LDX", "zpg,Y", 2) @@
    184 :> OpCode("CLV", "impl", 1) @@
    185 :> OpCode("LDA", "abs,Y", 3) @@
    186 :> OpCode("TSX", "impl", 1) @@
    188 :> OpCode("LDY", "abs,X", 3) @@
    189 :> OpCode("LDA", "abs,X", 3) @@
    190 :> OpCode("LDX", "abs,Y", 3) @@
    192 :> OpCode("CPY", "#", 2) @@
    193 :> OpCode("CMP", "X,ind", 2) @@
    196 :> OpCode("CPY", "zpg", 2) @@
    197 :> OpCode("CMP", "zpg", 2) @@
    198 :> OpCode("DEC", "zpg", 2) @@
    200 :> OpCode("INY", "impl", 1) @@
    201 :> OpCode("CMP", "#", 2) @@
    202 :> OpCode("DEX", "impl", 1) @@
    204 :> OpCode("CPY", "abs", 3) @@
    205 :> OpCode("CMP", "abs", 3) @@
    206 :> OpCode("DEC", "abs", 3) @@
    208 :> OpCode("BNE", "rel", 2) @@
    209 :> OpCode("CMP", "ind,Y", 2) @@
    213 :> OpCode("CMP", "zpg,X", 2) @@
    214 :> OpCode("DEC", "zpg,X", 2) @@
    216 :> OpCode("CLD", "impl", 1) @@
    217 :> OpCode("CMP", "abs,Y", 3) @@
    221 :> OpCode("CMP", "abs,X", 3) @@
    222 :> OpCode("DEC", "abs,X", 3) @@
    224 :> OpCode("CPX", "#", 2) @@
    225 :> OpCode("SBC", "X,ind", 2) @@
    228 :> OpCode("CPX", "zpg", 2) @@
    229 :> OpCode("SBC", "zpg", 2) @@
    230 :> OpCode("INC", "zpg", 2) @@
    232 :> OpCode("INX", "impl", 1) @@
    233 :> OpCode("SBC", "#", 2) @@
    234 :> OpCode("NOP", "impl", 1) @@
    236 :> OpCode("CPX", "abs", 3) @@
    237 :> OpCode("SBC", "abs", 3) @@
    238 :> OpCode("INC", "abs", 3) @@
    240 :> OpCode("BEQ", "rel", 2) @@
    241 :> OpCode("SBC", "ind,Y", 2) @@
    245 :> OpCode("SBC", "zpg,X", 2) @@
    246 :> OpCode("INC", "zpg,X", 2) @@
    248 :> OpCode("SED", "impl", 1) @@
    249 :> OpCode("SBC", "abs,Y", 3) @@
    253 :> OpCode("SBC", "abs,X", 3) @@
    254 :> OpCode("INC", "abs,X", 3)

(***************************************************************************)
(* JavaScript numbers that may be undefined or NaN (the cycle counter).    *)
(***************************************************************************)
JSNumber(n) == [type |-> "number", n |-> n]
JSNaN == [type |-> "NaN", n |-> 0]
JSUndefined == [type |-> "undefined", n |-> 0]

\* instruction.cycles : a property the object does not have reads undefined
Cycles(instruction) ==
    IF "cycles" \in DOMAIN instruction
    THEN JSNumber(instruction.cycles)
    ELSE JSUndefined

\* v-- : ToNumber(v) - 1, and ToNumber(undefined) is NaN
Decrement(v) == IF v.type = "number" THEN JSNumber(v.n - 1) ELSE JSNaN

\* v > 0 : false for undefined and NaN
GreaterThanZero(v) == v.type = "number" /\ v.n > 0

(***************************************************************************)
(* The state of the page (main.js).                                        *)
(***************************************************************************)
VARIABLES
    cpuRegisters,             \* a, x, y, pc, sp, status
    mainMemory,               \* the non-zero bytes of the 64 KiB array
    currentInstructionCycles, \* cycles left for the instruction in flight
    totalCycles,              \* ticks completed
    romLoaded,                \* a loadRom call has run to its end
    runInterval,              \* "null" or "timer": the handle Run keeps
    activeTimers,             \* interval timers the browser holds
    lastInstruction,          \* the text of the lastInstruction element
    consoleErrors,            \* opcodes reported by console.error
    resolverCall              \* a resolver called on its own: arguments and what it returned

vars == <<cpuRegisters, mainMemory, currentInstructionCycles, totalCycles,
          romLoaded, runInterval, activeTimers, lastInstruction, consoleErrors,
          resolverCall>>

\* no resolver has been called on its own
NoCall == [addressing_mode |-> "", operand1 |-> 0, operand2 |-> 0,
           returned |-> NullOperand]

\* the part of the state a tick works on
Core == [cpu |-> cpuRegisters, mem |-> mainMemory,
         cycles |-> currentInstructionCycles, total |-> totalCycles,
         last |-> lastInstruction, console |-> consoleErrors]

SetCore(m) ==
    /\ cpuRegisters' = m.cpu
    /\ mainMemory' = m.mem
    /\ currentInstructionCycles' = m.cycles
    /\ totalCycles' = m.total
    /\ lastInstruction' = m.last
    /\ consoleErrors' = m.console

\* a call that ran to its end, and one that a TypeError cut short
Returned(m) == [m |-> m, threw |-> FALSE]
Threw(m) == [m |-> m, threw |-> TRUE]

LastInstruction(instruction, operands) ==
    [instruction_name |-> instruction.instruction_name,
     addressing_mode |-> instruction.addressing_mode,
     operands |-> operands]

\* updateprogramDisplay reads mainMemory[i].toString(16) for i = pc-4 .. pc+4:
\* a byte outside the array is undefined and the call throws a TypeError
updateprogramDisplayThrows(cpu) ==
    \E i \in (cpu.pc - 4)..(cpu.pc + 4) : i < 0 \/ i >= MemSize

\* the rest parameter `args` is handed over as it is, one array: the resolver
\* gets it as its first argument and nothing as its second
executeInstruction(m, instruction_name, addressing_mode, args) ==
    LET instruction_operand ==
            address_mode_handlers(addressing_mode, m.cpu, m.mem,
                                  ArrayArgument(args), NoArgument)
        st == execute(instruction_name, m.cpu, m.mem, instruction_operand)
    IN  [m EXCEPT !.cpu = st.cpu, !.mem = st.mem]

\* decodeInstruction of the first main.js, which keeps no cycle counter:
\* fetch, look up, advance pc, resolve, execute, show the instruction
decodeAndExecute(m) ==
    LET opcode == Read(m.mem, m.cpu.pc)
    IN  IF opcode = undefined
        THEN Threw(m)     \* opcode_matrix[undefined], then opcode.toString
        ELSE IF opcode \notin DOMAIN opcode_matrix
        THEN Returned([m EXCEPT !.console = Append(@, opcode)])
        ELSE
        LET instruction == opcode_matrix[opcode]
            operand1 == Read(m.mem, m.cpu.pc + 1)
            operand2 == Read(m.mem, m.cpu.pc + 2)
            m2 == [m EXCEPT !.cpu.pc = @ + instruction.size]
            args == IF instruction.size = 1 THEN <<>>
                    ELSE IF instruction.size = 2 THEN <<operand1>>
                    ELSE <<operand1, operand2>>
            m3 == executeInstruction(m2, instruction.instruction_name,
                                     instruction.addressing_mode, args)
        IN  \* the template for lastInstruction calls operand.toString(16)
            IF \E k \in 1..Len(args) : args[k] = undefined
            THEN Threw(m3)
            ELSE Returned([m3 EXCEPT !.last = LastInstruction(instruction, args)])

\* decodeInstruction of the main.js with the tick loop: the same, and
\* currentInstructionCycles = instruction.cycles once the opcode is found
decodeInstruction(m) ==
    LET opcode == Read(m.mem, m.cpu.pc)
    IN  IF opcode # undefined /\ opcode \in DOMAIN opcode_matrix
        THEN decodeAndExecute([m EXCEPT !.cycles = Cycles(opcode_matrix[opcode])])
        ELSE decodeAndExecute(m)

\* the element of a one-element set: a variable bound over {e} holds the value
\* of e, computed once, where a LET name stands for the expression e
Only(S) == CHOOSE x \in S : TRUE

cpuCycle(m) ==
    LET dispatch == m.cycles = JSNumber(0)
    IN  Only({IF d.threw
              THEN d
              ELSE IF dispatch /\ updateprogramDisplayThrows(d.m.cpu)
              THEN Threw(d.m)
              ELSE Returned([d.m EXCEPT !.cycles = Decrement(@), !.total = @ + 1]) :
              d \in {IF dispatch THEN decodeInstruction(m) ELSE Returned(m)}})

\* do { cpuCycle(); } while (currentInstructionCycles > 0);
RECURSIVE stepLoop(_)
stepLoop(m) ==
    Only({IF r.threw THEN r.m
          ELSE IF GreaterThanZero(r.m.cycles) THEN stepLoop(r.m)
          ELSE r.m :
          r \in {cpuCycle(m)}})

(***************************************************************************)
(* ROM images.  romData is the byte array loadRom receives; the model      *)
(* keeps its length and its non-zero bytes by offset.                      *)
(***************************************************************************)
RomData(length, bytes) == [length |-> length, bytes |-> bytes]

\* mainMemory.set(romData, loadAddress)
SetMemory(mem, romData, loadAddress) ==
    LET region == loadAddress..(MemSize - 1)
        filled == {loadAddress + k : k \in DOMAIN romData.bytes}
    IN  [j \in (DOMAIN mem \ region) \cup filled |->
            IF j \in filled THEN romData.bytes[j - loadAddress] ELSE mem[j]]

(***************************************************************************)
(* Event handlers.                                                         *)
(***************************************************************************)
\* loadRom without the statement that initializes the stack pointer
loadRom_KeepsStackPointer(romData) ==
    LET loadAddress == MemSize - romData.length
        mem1 == SetMemory(mainMemory, romData, loadAddress)
        cpu1 == [cpuRegisters EXCEPT
                    !.pc = BitOr(Read(mem1, 65532), Read(mem1, 65533) * 256)]
    IN  /\ mainMemory' = mem1
        /\ cpuRegisters' = cpu1
        /\ romLoaded' = IF updateprogramDisplayThrows(cpu1) THEN romLoaded ELSE TRUE
        /\ UNCHANGED <<currentInstructionCycles, totalCycles, runInterval,
                       activeTimers, lastInstruction, consoleErrors, resolverCall>>

\* loadRom(romData), reached from the FileReader's onload callback
loadRom(romData) ==
    LET loadAddress == MemSize - romData.length
        mem1 == SetMemory(mainMemory, romData, loadAddress)
        cpu1 == [cpuRegisters EXCEPT
                    !.pc = BitOr(Read(mem1, 65532), Read(mem1, 65533) * 256),
                    !.sp = 255]
    IN  /\ mainMemory' = mem1
        /\ cpuRegisters' = cpu1
        /\ romLoaded' = IF updateprogramDisplayThrows(cpu1) THEN romLoaded ELSE TRUE
        /\ UNCHANGED <<currentInstructionCycles, totalCycles, runInterval,
                       activeTimers, lastInstruction, consoleErrors, resolverCall>>

\* a Run handler that starts a timer whether or not one is running
runButton_StartsAnotherTimer ==
    /\ romLoaded
    /\ runInterval' = "timer"
    /\ activeTimers' = activeTimers + 1
    /\ UNCHANGED <<cpuRegisters, mainMemory, currentInstructionCycles, totalCycles,
                   romLoaded, lastInstruction, consoleErrors, resolverCall>>

runButton ==
    /\ romLoaded
    /\ IF runInterval = "null"
       THEN runInterval' = "timer" /\ activeTimers' = activeTimers + 1
       ELSE UNCHANGED <<runInterval, activeTimers>>
    /\ UNCHANGED <<cpuRegisters, mainMemory, currentInstructionCycles, totalCycles,
                   romLoaded, lastInstruction, consoleErrors, resolverCall>>

stopButton ==
    /\ IF runInterval # "null"
       THEN runInterval' = "null" /\ activeTimers' = activeTimers - 1
       ELSE UNCHANGED <<runInterval, activeTimers>>
    /\ UNCHANGED <<cpuRegisters, mainMemory, currentInstructionCycles, totalCycles,
                   romLoaded, lastInstruction, consoleErrors, resolverCall>>

\* the setInterval callback
timerTick ==
    /\ activeTimers > 0
    /\ totalCycles < MaxTicks
    /\ \E r \in {cpuCycle(Core)} : SetCore(r.m)
    /\ UNCHANGED <<romLoaded, runInterval, activeTimers, resolverCall>>

stepButton ==
    /\ romLoaded
    /\ totalCycles < MaxTicks
    /\ \E m \in {stepLoop(Core)} : SetCore(m)
    /\ UNCHANGED <<romLoaded, runInterval, activeTimers, resolverCall>>

\* a Cycle handler that does not ask for a loaded ROM
cycleButton_WithoutRomCheck ==
    /\ totalCycles < MaxTicks
    /\ \E r \in {cpuCycle(Core)} : SetCore(r.m)
    /\ UNCHANGED <<romLoaded, runInterval, activeTimers, resolverCall>>

cycleButton ==
    /\ romLoaded
    /\ totalCycles < MaxTicks
    /\ \E r \in {cpuCycle(Core)} : SetCore(r.m)
    /\ UNCHANGED <<romLoaded, runInterval, activeTimers, resolverCall>>

\* the Step button of the first main.js: decodeInstruction(), then the two
\* display updates; it keeps no cycle counter and asks for no loaded ROM
stepInstruction ==
    /\ Len(consoleErrors) < MaxErrors
    /\ \E r \in {decodeAndExecute(Core)} : SetCore(r.m)
    /\ UNCHANGED <<romLoaded, runInterval, activeTimers, resolverCall>>

(***************************************************************************)
(* The ROM images the model loads: 16 KiB of PRG-ROM, a short program at   *)
(* its first byte (0xC000), the reset vector and the IRQ vector.           *)
(***************************************************************************)
RomLength == 16384

RomOrigin == MemSize - RomLength

RECURSIVE WriteAll(_, _, _)
WriteAll(mem, address, code) ==
    IF code = <<>> THEN mem
    ELSE WriteAll(Write(mem, address, Head(code)), address + 1, Tail(code))

\* the image with `code` at its first byte and the two vectors at its end
ProgramRom(code, resetVector, irqVector) ==
    LET m1 == WriteAll(EmptyMemory, RomOrigin, code)
        m2 == WriteAll(m1, 65532, <<resetVector % 256, resetVector \div 256,
                                    irqVector % 256, irqVector \div 256>>)
    IN  RomData(RomLength, [k \in {j - RomOrigin : j \in DOMAIN m2} |-> m2[k + RomOrigin]])

\* LDA #$05; ADC #$03; BRK
ScenarioCode == <<169, 5, 105, 3, 0>>

ScenarioIrq == RomOrigin + 4096

ScenarioRom == ProgramRom(ScenarioCode, RomOrigin, ScenarioIrq)


\* one-instruction programs: NOP, BRK, a byte with no table entry, CMP # and
\* CPY #, JMP abs, LDA abs / abs,X of the data byte at 0xC003, STA abs, and
\* branches with displacement +5 and -5
RomPrograms ==
    {<<234>>, <<0>>, <<2>>, <<201, 1>>, <<192, 1>>,
     <<76, 52, 18>>, <<173, 3, 192, 66>>, <<141, 52, 18>>, <<189, 3, 192, 66>>,
     <<16, 5>>, <<16, 251>>, <<80, 5>>}

OneInstructionRoms ==
    {ProgramRom(code, RomOrigin, ScenarioIrq) : code \in RomPrograms}

\* programs that sit at the top of memory: the reset vector points at 0xFFFF
\* or 0xFFFE and the IRQ vector bytes are the instruction (NOP at 0xFFFF,
\* LDA # at 0xFFFF, LDA abs at 0xFFFE)
TopOfMemoryRoms ==
    {ProgramRom(<<>>, 65535, 234 * 256),
     ProgramRom(<<>>, 65535, 169 * 256),
     ProgramRom(<<>>, 65534, 16 * 256 + 173)}

Roms == {ScenarioRom} \cup OneInstructionRoms \cup TopOfMemoryRoms

(***************************************************************************)
(* The page after its scripts have run, and its events.                    *)
(***************************************************************************)
InitialRegisters == [a |-> 0, x |-> 0, y |-> 0, pc |-> 49152, sp |-> 255, status |-> 0]

NoInstruction == [instruction_name |-> "", addressing_mode |-> "", operands |-> <<>>]

Init ==
    /\ cpuRegisters = InitialRegisters
    /\ mainMemory = EmptyMemory
    /\ currentInstructionCycles = JSNumber(0)
    /\ totalCycles = 0
    /\ romLoaded = FALSE
    /\ runInterval = "null"
    /\ activeTimers = 0
    /\ lastInstruction = NoInstruction
    /\ consoleErrors = <<>>
    /\ resolverCall = NoCall

LoadRom == \E romData \in Roms : loadRom(romData)

Next ==
    \/ LoadRom
    \/ runButton
    \/ stopButton
    \/ timerTick
    \/ stepButton
    \/ cycleButton

Spec == Init /\ [][Next]_vars

(***************************************************************************)
(* The instruction handlers on an arbitrary register file: the page with a *)
(* ROM loaded and the counter at an instruction boundary, the registers,   *)
(* the flags and the operand bytes drawn from sample sets, and one         *)
(* instruction at 0xC000 dispatched by the Cycle button.                   *)
(***************************************************************************)
\* sample bytes: both ends of the range, the sign boundary, carries
ExecBytes == {0, 1, 2, 15, 63, 64, 127, 128, 129, 192, 254, 255}

\* sample flag bytes: none, Carry, all but Carry, all
ExecStatus == {0, 1, 254, 255}

\* ADC and SBC in their eight addressing modes
ExecOpcodes ==
    {105, 101, 117, 109, 125, 121, 97, 113,
     233, 229, 245, 237, 253, 249, 225, 241}

\* the byte the model puts at zero-page address i
ZeroPageByte(i) == (i * 7 + 3) % 256

ExecMemory(opcode, operand1) ==
    LET zp == [i \in {j \in 0..255 : ZeroPageByte(j) # 0} |-> ZeroPageByte(i)]
    IN  WriteAll(zp, RomOrigin, <<opcode, operand1, 2>>)

InitExec ==
    /\ \E a \in ExecBytes, status \in ExecStatus :
          cpuRegisters = [a |-> a, x |-> 1, y |-> 2, pc |-> RomOrigin,
                          sp |-> 255, status |-> status]
    /\ \E opcode \in ExecOpcodes, operand1 \in ExecBytes :
          mainMemory = ExecMemory(opcode, operand1)
    /\ currentInstructionCycles = JSNumber(0)
    /\ totalCycles = 0
    /\ romLoaded = TRUE
    /\ runInterval = "null"
    /\ activeTimers = 0
    /\ lastInstruction = NoInstruction
    /\ consoleErrors = <<>>
    /\ resolverCall = NoCall

NextExec == cycleButton

SpecExec == InitExec /\ [][NextExec]_vars

(***************************************************************************)
(* Every entry of the opcode table on a sample of register files: the page *)
(* with a ROM loaded and the counter at an instruction boundary, one       *)
(* instruction at 0xC000 dispatched by the Cycle button.                   *)
(***************************************************************************)
\* accumulator and stack pointer: zero, one, the sign bit, all ones; the
\* stack pointer at both ends of page 1 and next to them
DispatchAccumulators == {<<0, 255>>, <<1, 0>>, <<128, 1>>, <<255, 254>>}

\* X and Y: both ends of the range and both sides of the sign boundary
DispatchIndexes == {<<0, 255>>, <<255, 0>>, <<1, 128>>}

\* flag bytes: none, Carry and Overflow, all
DispatchStatus == {0, 65, 255}

\* first operand bytes: as immediate values zero, two positive bytes and a
\* negative one; as zero-page addresses the bytes 3, 129, 255 and 0
DispatchOperands == {0, 18, 36, 219}

\* the bytes a pop finds in page 1
StackByte(i) == (i * 85 + 128) % 256

DispatchMemory(opcode, operand1) ==
    LET stack == {256, 257, 258, 259, 260, 511}
        m1 == [i \in {j \in stack : StackByte(j) # 0} |-> StackByte(i)] @@
              ExecMemory(opcode, operand1)
    IN  m1

InitDispatch ==
    /\ \E as \in DispatchAccumulators, xy \in DispatchIndexes,
          status \in DispatchStatus :
          cpuRegisters = [a |-> as[1], x |-> xy[1], y |-> xy[2], pc |-> RomOrigin,
                          sp |-> as[2], status |-> status]
    /\ \E opcode \in DOMAIN opcode_matrix, operand1 \in DispatchOperands :
          mainMemory = DispatchMemory(opcode, operand1)
    /\ currentInstructionCycles = JSNumber(0)
    /\ totalCycles = 0
    /\ romLoaded = TRUE
    /\ runInterval = "null"
    /\ activeTimers = 0
    /\ lastInstruction = NoInstruction
    /\ consoleErrors = <<>>
    /\ resolverCall = NoCall

NextDispatch == cycleButton

SpecDispatch == InitDispatch /\ [][NextDispatch]_vars

(***************************************************************************)
(* Programs run instruction by instruction: the page right after it loaded *)
(* a ROM holding LDA #v1; ADC #v2; BRK and a byte with no table entry,     *)
(* stepped by the Step button that dispatches one instruction per press.   *)
(***************************************************************************)
InstrRoms ==
    {ScenarioRom}
    \cup {ProgramRom(<<169, v1, 105, v2, 0, 2>>, RomOrigin, RomOrigin + 5) :
            v1 \in ExecBytes, v2 \in ExecBytes}

InitInstr ==
    /\ \E romData \in InstrRoms :
          /\ mainMemory = SetMemory(EmptyMemory, romData, MemSize - romData.length)
          /\ cpuRegisters =
                [InitialRegisters EXCEPT
                    !.pc = BitOr(Read(mainMemory, 65532), Read(mainMemory, 65533) * 256)]
    /\ currentInstructionCycles = JSNumber(0)
    /\ totalCycles = 0
    /\ romLoaded = TRUE
    /\ runInterval = "null"
    /\ activeTimers = 0
    /\ lastInstruction = NoInstruction
    /\ consoleErrors = <<>>
    /\ resolverCall = NoCall

NextInstr == stepInstruction

SpecInstr == InitInstr /\ [][NextInstr]_vars

(***************************************************************************)
(* Stack round trips, stepped by the Step button of the first main.js from *)
(* states a program can bring the machine to: SP from LDX/TXS, status from *)
(* PHA/PLP, PHP and BRK, pc past the ROM's first bytes from PHA/PHA/RTS,    *)
(* RAM bytes from STA. The registers a round trip leaves alone remember    *)
(* how it started: X holds SP; in a push/pull program Y holds A; in a call *)
(* program A holds the number of the call site; in a break program Y holds *)
(* the status byte and A the number of the break site.                     *)
(***************************************************************************)
StackPointers == {0, 1, 2, 128, 255}

StackBytes == {0, 1, 127, 128, 255}

StackStatus == {0, 16, 32, 48, 125, 130, 195, 255}

\* what runs between PHA and PLA: nothing, LDA #$00, LDA #$80, SEC,
\* ADC #$01, LDA #$07 then CLC
Betweens == {<<>>, <<169, 0>>, <<169, 128>>, <<56>>, <<105, 1>>, <<169, 7, 24>>}

\* PHA; ...; PLA and a byte with no table entry
PushPullMemory(between) ==
    WriteAll(EmptyMemory, RomOrigin, <<72>> \o between \o <<104, 2>>)

\* the addresses of the JSR: 0x0600, the first byte of the ROM, the last
\* bytes of a page, and the last three bytes of memory
CallSites == <<1536, RomOrigin, RomOrigin + 253, RomOrigin + 254, 65533>>

\* JSR $1234 at p and a byte with no table entry after it; RTS at address 0,
\* where the call arrives, and a byte with no table entry at address 1
CallMemory(p) ==
    WriteAll(WriteAll(EmptyMemory, 0, <<96, 2>>), p, <<32, 52, 18, 2>>)

\* the addresses of the BRK: 0x0600, the last bytes of a page, and the last
\* byte of memory
BreakSites == <<1536, RomOrigin + 254, RomOrigin + 255, 65535>>

\* the address the IRQ vector holds
BreakHandler == 16

\* BRK at p (a zero byte), a byte with no table entry at p + 2, RTI at the
\* handler and the handler's address at 0xFFFE
BreakMemory(p) ==
    LET m1 == Write(EmptyMemory, BreakHandler, 64)
        m2 == Write(m1, (p + 2) % 65536, 2)
    IN  Write(m2, 65534, BreakHandler)

InitStack ==
    /\ \E sp \in StackPointers, status \in StackStatus :
          \/ \E a \in StackBytes, between \in Betweens :
                /\ mainMemory = PushPullMemory(between)
                /\ cpuRegisters = [a |-> a, x |-> sp, y |-> a, pc |-> RomOrigin,
                                   sp |-> sp, status |-> status]
          \/ \E site \in DOMAIN CallSites :
                /\ mainMemory = CallMemory(CallSites[site])
                /\ cpuRegisters = [a |-> site, x |-> sp, y |-> 0,
                                   pc |-> CallSites[site],
                                   sp |-> sp, status |-> status]
          \/ \E site \in DOMAIN BreakSites :
                /\ mainMemory = BreakMemory(BreakSites[site])
                /\ cpuRegisters = [a |-> site, x |-> sp, y |-> status,
                                   pc |-> BreakSites[site],
                                   sp |-> sp, status |-> status]
    /\ currentInstructionCycles = JSNumber(0)
    /\ totalCycles = 0
    /\ romLoaded = TRUE
    /\ runInterval = "null"
    /\ activeTimers = 0
    /\ lastInstruction = NoInstruction
    /\ consoleErrors = <<>>
    /\ resolverCall = NoCall

NextStack == stepInstruction

SpecStack == InitStack /\ [][NextStack]_vars

(***************************************************************************)
(* Rotations, stepped by the Step button of the first main.js: ROL then    *)
(* ROR, ROR then ROL, nine ROLs and nine RORs, on the accumulator and on   *)
(* the zero-page byte 0x10, from every byte value and both carries.  The   *)
(* index registers, which a rotation leaves alone, remember how the        *)
(* program started: X holds the value of the target and Y the Carry flag.  *)
(***************************************************************************)
\* the zero-page byte the memory forms rotate
RotateTarget == 16

\* Carry clear and set, with the other flags clear and with N, V and Z set
RotateStatus == {0, 1, 194, 195}

\* ROL A = 0x2A, ROR A = 0x6A, ROL zpg = 0x26, ROR zpg = 0x66; every program
\* ends in a byte with no table entry
RotatePrograms ==
    {<<42, 106, 2>>, <<106, 42, 2>>,
     <<38, RotateTarget, 102, RotateTarget, 2>>,
     <<102, RotateTarget, 38, RotateTarget, 2>>,
     [k \in 1..10 |-> IF k = 10 THEN 2 ELSE 42],
     [k \in 1..10 |-> IF k = 10 THEN 2 ELSE 106],
     [k \in 1..19 |-> IF k = 19 THEN 2 ELSE IF k % 2 = 1 THEN 38 ELSE RotateTarget],
     [k \in 1..19 |-> IF k = 19 THEN 2 ELSE IF k % 2 = 1 THEN 102 ELSE RotateTarget]}

InitRotate ==
    /\ \E code \in RotatePrograms, v \in 0..255, status \in RotateStatus :
          /\ mainMemory =
                WriteAll(IF code[1] \in {42, 106} THEN EmptyMemory
                         ELSE Write(EmptyMemory, RotateTarget, v),
                         RomOrigin, code)
          /\ cpuRegisters = [a |-> IF code[1] \in {42, 106} THEN v ELSE 0,
                             x |-> v, y |-> status % 2, pc |-> RomOrigin,
                             sp |-> 255, status |-> status]
    /\ currentInstructionCycles = JSNumber(0)
    /\ totalCycles = 0
    /\ romLoaded = TRUE
    /\ runInterval = "null"
    /\ activeTimers = 0
    /\ lastInstruction = NoInstruction
    /\ consoleErrors = <<>>
    /\ resolverCall = NoCall

NextRotate == stepInstruction

SpecRotate == InitRotate /\ [][NextRotate]_vars

(***************************************************************************)
(* The resolvers called on their own, as their parameter lists declare     *)
(* them: address_mode_handlers[addressing_mode](operand1, operand2) with   *)
(* two operand bytes, over a memory whose bytes tell their addresses apart *)
(* and every pair of index registers drawn from ResolveBytes.              *)
(***************************************************************************)
ResolveBytes == {0, 1, 2, 127, 128, 254, 255}

ResolveHighBytes == {0, 1, 2, 3, 255}

ResolveModes ==
    {"A", "abs", "abs,X", "abs,Y", "#", "impl", "ind", "X,ind", "ind,Y", "rel",
     "zpg", "zpg,X", "zpg,Y"}

\* a byte that differs between an address and its neighbour, and between
\* the same offset of neighbouring pages
PatternByte(i) == (i * 7 + (i \div 256) * 29 + 3) % 256

ResolveMemory ==
    LET used == (0..255) \cup
                {h * 256 + l : h \in ResolveHighBytes,
                               l \in ResolveBytes \cup {(b + 1) % 256 : b \in ResolveBytes}}
    IN  [i \in {j \in used : PatternByte(j) # 0} |-> PatternByte(i)]

InitResolve ==
    /\ \E x \in ResolveBytes, y \in ResolveBytes :
          cpuRegisters = [InitialRegisters EXCEPT !.x = x, !.y = y]
    /\ mainMemory = ResolveMemory
    /\ currentInstructionCycles = JSNumber(0)
    /\ totalCycles = 0
    /\ romLoaded = FALSE
    /\ runInterval = "null"
    /\ activeTimers = 0
    /\ lastInstruction = NoInstruction
    /\ consoleErrors = <<>>
    /\ resolverCall = NoCall

\* execute.address_mode_handlers[addressing_mode](operand1, operand2)
resolve ==
    /\ resolverCall = NoCall
    /\ \E addressing_mode \in ResolveModes,
          operand1 \in ResolveBytes, operand2 \in ResolveHighBytes :
          resolverCall' =
             [addressing_mode |-> addressing_mode,
              operand1 |-> operand1, operand2 |-> operand2,
              returned |-> address_mode_handlers(addressing_mode, cpuRegisters,
                              mainMemory, ByteArgument(operand1),
                              ByteArgument(operand2))]
    /\ UNCHANGED <<cpuRegisters, mainMemory, currentInstructionCycles, totalCycles,
                   romLoaded, runInterval, activeTimers, lastInstruction,
                   consoleErrors>>

NextResolve == resolve

SpecResolve == InitResolve /\ [][NextResolve]_vars

(***************************************************************************)
(* Vocabulary of the properties.                                           *)
(***************************************************************************)
FlagSet(status, mask) == BitAnd(status, mask) # 0

\* the byte at pc and, when the table knows it, its entry
Fetched == Read(mainMemory, cpuRegisters.pc)

Known == Fetched # undefined /\ Fetched \in DOMAIN opcode_matrix

Decoded == opcode_matrix[Fetched]

Idle == currentInstructionCycles = JSNumber(0)

Counting == GreaterThanZero(currentInstructionCycles)

\* a step of the tick loop: only cpuCycle touches the two counters
Tick ==
    \/ totalCycles' # totalCycles
    \/ currentInstructionCycles' # currentInstructionCycles

\* a step of the tick loop that dispatches one of the named instructions
Dispatches(names) ==
    /\ Idle
    /\ currentInstructionCycles' # currentInstructionCycles
    /\ Known
    /\ Decoded.instruction_name \in names

\* a step that loads a program: no tick, and memory, registers or romLoaded change
LoadStep ==
    /\ ~Tick
    /\ \/ mainMemory' # mainMemory
       \/ cpuRegisters' # cpuRegisters
       \/ romLoaded' # romLoaded

\* the byte the dispatched instruction operates on: the byte at the address
\* its addressing mode resolves to, pc already past the instruction
OperandBytes ==
    IF Decoded.size = 1 THEN <<>>
    ELSE IF Decoded.size = 2 THEN <<Read(mainMemory, cpuRegisters.pc + 1)>>
    ELSE <<Read(mainMemory, cpuRegisters.pc + 1), Read(mainMemory, cpuRegisters.pc + 2)>>

OperandByte ==
    Read(mainMemory,
         address_mode_handlers(Decoded.addressing_mode,
                               [cpuRegisters EXCEPT !.pc = @ + Decoded.size],
                               mainMemory, ArrayArgument(OperandBytes),
                               NoArgument).val)

CarryIn == IF FlagSet(cpuRegisters.status, 1) THEN 1 ELSE 0

(***************************************************************************)
(* C1: executing ADC with accumulator a, operand byte b and carry-in c     *)
(* leaves A = (a + b + c) mod 256 and Carry set iff a + b + c > 255.       *)
(***************************************************************************)
C1_AdcSumAndCarry ==
    [][Dispatches({"ADC"}) =>
          LET sum == cpuRegisters.a + OperandByte + CarryIn
          IN  /\ cpuRegisters'.a = sum % 256
              /\ FlagSet(cpuRegisters'.status, 1) <=> (sum > 255)]_vars

\* ADC # has run and the sum wrapped to zero with a carry out
C1_Witness ==
    /\ lastInstruction.instruction_name = "ADC"
    /\ lastInstruction.addressing_mode = "#"
    /\ cpuRegisters.a = 0
    /\ FlagSet(cpuRegisters.status, 1)

(***************************************************************************)
(* C2: executing SBC with accumulator a, operand byte b and carry-in c     *)
(* leaves A = (a - b - (1 - c)) mod 256 and Carry set iff                  *)
(* a - b - (1 - c) >= 0, that is iff there was no borrow.                  *)
(***************************************************************************)
C2_SbcDifferenceAndCarry ==
    [][Dispatches({"SBC"}) =>
          LET diff == cpuRegisters.a - OperandByte - (1 - CarryIn)
          IN  /\ cpuRegisters'.a = diff % 256
              /\ FlagSet(cpuRegisters'.status, 1) <=> (diff >= 0)]_vars

\* SBC # has run and borrowed: the difference wrapped to 0xFF, Carry clear
C2_Witness ==
    /\ lastInstruction.instruction_name = "SBC"
    /\ lastInstruction.addressing_mode = "#"
    /\ cpuRegisters.a = 255
    /\ ~FlagSet(cpuRegisters.status, 1)

(***************************************************************************)
(* C3: a compare of register r (A for CMP, X for CPX, Y for CPY) with      *)
(* operand byte m sets Carry iff r >= m, Zero iff r = m, Negative iff bit  *)
(* 7 of (r - m) mod 256 is set, and leaves A, X, Y and memory unchanged.   *)
(***************************************************************************)
C3_CompareFlags ==
    [][Dispatches({"CMP", "CPX", "CPY"}) =>
          LET r == CASE Decoded.instruction_name = "CMP" -> cpuRegisters.a
                     [] Decoded.instruction_name = "CPX" -> cpuRegisters.x
                     [] Decoded.instruction_name = "CPY" -> cpuRegisters.y
              m == OperandByte
          IN  /\ FlagSet(cpuRegisters'.status, 1) <=> (r >= m)
              /\ FlagSet(cpuRegisters'.status, 2) <=> (r = m)
              /\ FlagSet(cpuRegisters'.status, 128) <=> ((r - m) % 256 >= 128)
              /\ cpuRegisters'.a = cpuRegisters.a
              /\ cpuRegisters'.x = cpuRegisters.x
              /\ cpuRegisters'.y = cpuRegisters.y
              /\ mainMemory' = mainMemory]_vars

(***************************************************************************)
(* C4: with A9 05 69 03 00 at 0xC000, started at pc = 0xC000 with status   *)
(* 0: once LDA #$05 and ADC #$03 have been executed A = 8 and Carry, Zero  *)
(* and Negative are clear; once BRK has been executed pc is the word at    *)
(* 0xFFFE/0xFFFF and the status byte BRK pushed has the Break bit set.     *)
(***************************************************************************)
ScenarioLoaded ==
    \A k \in 1..Len(ScenarioCode) :
        Read(mainMemory, RomOrigin + k - 1) = ScenarioCode[k]

C5_TickAccounting ==
    [][Tick =>
          /\ totalCycles' = totalCycles + 1
          /\ (Idle /\ Known) =>
                /\ GreaterThanZero(Cycles(Decoded))
                /\ currentInstructionCycles' = Decrement(Cycles(Decoded))
                /\ lastInstruction'.instruction_name = Decoded.instruction_name
          /\ ~Idle => currentInstructionCycles' = Decrement(currentInstructionCycles)]_vars

(***************************************************************************)
(* C6: an instruction of cost n occupies exactly n consecutive ticks: the  *)
(* tick that dispatches it leaves n - 1 ticks to count, each countdown     *)
(* tick takes one off the counter and changes no register, flag or memory  *)
(* byte, and the loop is back in Idle for the n-th tick: before and after  *)
(* every tick the loop is Idle or Counting a positive number of ticks.     *)
(***************************************************************************)
C6_IdleDispatchCounting ==
    [][Tick =>
          /\ (Idle /\ Known) => (Idle' \/ Counting')
          /\ ~Idle =>
                /\ Counting
                /\ currentInstructionCycles' = Decrement(currentInstructionCycles)
                /\ Idle' \/ Counting'
                /\ UNCHANGED <<cpuRegisters, mainMemory>>]_vars

(***************************************************************************)
(* C7: if the byte at pc has no opcode-table entry, the tick that tries to *)
(* dispatch it reports a decode error and changes no register, flag or     *)
(* memory byte; no instruction is dispatched on a later tick until a new   *)
(* program is loaded; after such a load dispatch works again (the loop is  *)
(* Idle, so the next tick dispatches).                                     *)
(***************************************************************************)
Halted == currentInstructionCycles.type = "number" /\ currentInstructionCycles.n < 0

C7_DecodeErrorHaltsUntilReset ==
    [][/\ (Tick /\ Idle /\ Fetched # undefined /\ ~Known) =>
             /\ consoleErrors' = Append(consoleErrors, Fetched)
             /\ UNCHANGED <<cpuRegisters, mainMemory>>
             /\ Halted'
       /\ (Tick /\ Halted) =>
             /\ UNCHANGED <<cpuRegisters, mainMemory, lastInstruction>>
             /\ Halted'
       /\ (LoadStep /\ Halted) => Idle']_vars

(***************************************************************************)
(* C8: when a tick dispatches a 3-byte instruction at address p, with      *)
(* lo = memory[p+1] and hi = memory[p+2], an Absolute instruction acts on  *)
(* address (hi<<8)|lo: JMP sets pc to it, STA writes A to it, LDA reads    *)
(* from it; Absolute,X and Absolute,Y act on ((hi<<8)|lo + X or Y) mod     *)
(* 65536.                                                                  *)
(***************************************************************************)
C8_AbsoluteAddress ==
    [][(/\ Dispatches({"JMP", "STA", "LDA"})
        /\ Decoded.addressing_mode \in {"abs", "abs,X", "abs,Y"}) =>
          LET lo == Read(mainMemory, cpuRegisters.pc + 1)
              hi == Read(mainMemory, cpuRegisters.pc + 2)
              index == CASE Decoded.addressing_mode = "abs" -> 0
                         [] Decoded.addressing_mode = "abs,X" -> cpuRegisters.x
                         [] Decoded.addressing_mode = "abs,Y" -> cpuRegisters.y
              address == (hi * 256 + lo + index) % 65536
          IN  CASE Decoded.instruction_name = "JMP" -> cpuRegisters'.pc = address
                [] Decoded.instruction_name = "STA" ->
                      Read(mainMemory', address) = cpuRegisters.a
                [] Decoded.instruction_name = "LDA" ->
                      cpuRegisters'.a = Read(mainMemory, address)]_vars

(***************************************************************************)
(* C9: in every state reachable by ticks from a loaded program A, X, Y and *)
(* SP are in 0..255, every memory byte is in 0..255 and pc is in 0..65535  *)
(* (advancing pc past an instruction at the top of memory wraps it modulo  *)
(* 65536).                                                                 *)
(***************************************************************************)
C9_RegisterRanges ==
    /\ cpuRegisters.a \in 0..255
    /\ cpuRegisters.x \in 0..255
    /\ cpuRegisters.y \in 0..255
    /\ cpuRegisters.sp \in 0..255
    /\ cpuRegisters.pc \in 0..65535
    /\ \A i \in DOMAIN mainMemory : i \in 0..65535 /\ mainMemory[i] \in 0..255

(***************************************************************************)
(* C10: a branch is taken iff its own flag bit has the required value      *)
(* (BCC/BCS Carry bit 0, BEQ/BNE Zero bit 1, BMI/BPL Negative bit 7,       *)
(* BVC/BVS Overflow bit 6) whatever the other flags; taken, pc becomes     *)
(* (address after the branch + signed displacement) mod 65536; not taken,  *)
(* pc is the address after the branch.                                     *)
(***************************************************************************)
BranchNames == {"BCC", "BCS", "BEQ", "BNE", "BMI", "BPL", "BVC", "BVS"}

BranchCondition(instruction_name, status) ==
    CASE instruction_name = "BCC" -> ~FlagSet(status, 1)
      [] instruction_name = "BCS" -> FlagSet(status, 1)
      [] instruction_name = "BEQ" -> FlagSet(status, 2)
      [] instruction_name = "BNE" -> ~FlagSet(status, 2)
      [] instruction_name = "BMI" -> FlagSet(status, 128)
      [] instruction_name = "BPL" -> ~FlagSet(status, 128)
      [] instruction_name = "BVC" -> ~FlagSet(status, 64)
      [] instruction_name = "BVS" -> FlagSet(status, 64)

C10_BranchTarget ==
    [][Dispatches(BranchNames) =>
          LET after == (cpuRegisters.pc + 2) % 65536
              byte == Read(mainMemory, (cpuRegisters.pc + 1) % 65536)
              displacement == IF byte >= 128 THEN byte - 256 ELSE byte
          IN  /\ cpuRegisters'.status = cpuRegisters.status
              /\ cpuRegisters'.pc =
                    IF BranchCondition(Decoded.instruction_name, cpuRegisters.status)
                    THEN (after + displacement) % 65536
                    ELSE after]_vars

(***************************************************************************)
(* C11: a branch consumes its base cycle count when it is not taken, one   *)
(* tick more when it is taken and the high byte of pc is the same before   *)
(* and after adding the displacement, two ticks more when it is taken and  *)
(* the high byte changes: the dispatching tick leaves that many ticks, less *)
(* its own, on the counter.                                                *)
(***************************************************************************)
C11_BranchCycles ==
    [][Dispatches(BranchNames) =>
          LET after == (cpuRegisters.pc + 2) % 65536
              byte == Read(mainMemory, (cpuRegisters.pc + 1) % 65536)
              displacement == IF byte >= 128 THEN byte - 256 ELSE byte
              target == (after + displacement) % 65536
              taken == BranchCondition(Decoded.instruction_name, cpuRegisters.status)
              penalty == IF ~taken THEN 0
                         ELSE IF target \div 256 = after \div 256 THEN 1
                         ELSE 2
          IN  /\ GreaterThanZero(Cycles(Decoded))
              /\ currentInstructionCycles' =
                    JSNumber(Cycles(Decoded).n + penalty - 1)]_vars

(***************************************************************************)
(* C12: in Absolute,X / Absolute,Y / Indirect,Y mode the read instructions *)
(* ADC, AND, CMP, EOR, LDA, LDX, LDY, ORA, SBC consume base + 1 ticks when *)
(* the indexed address computation crosses a page and base ticks           *)
(* otherwise; ASL, DEC, INC, LSR, ROL, ROR, STA always consume exactly the *)
(* base count.                                                             *)
(***************************************************************************)
IndexedReadNames == {"ADC", "AND", "CMP", "EOR", "LDA", "LDX", "LDY", "ORA", "SBC"}

IndexedWriteNames == {"ASL", "DEC", "INC", "LSR", "ROL", "ROR", "STA"}

C12_IndexedCycles ==
    [][(/\ Dispatches(IndexedReadNames \cup IndexedWriteNames)
        /\ Decoded.addressing_mode \in {"abs,X", "abs,Y", "ind,Y"}) =>
          LET lo == Read(mainMemory, (cpuRegisters.pc + 1) % 65536)
              baseLow == IF Decoded.addressing_mode = "ind,Y"
                         THEN Read(mainMemory, lo) ELSE lo
              index == IF Decoded.addressing_mode = "abs,X"
                       THEN cpuRegisters.x ELSE cpuRegisters.y
              penalty == IF Decoded.instruction_name \in IndexedReadNames
                            /\ baseLow + index > 255
                         THEN 1 ELSE 0
          IN  /\ GreaterThanZero(Cycles(Decoded))
              /\ currentInstructionCycles' =
                    JSNumber(Cycles(Decoded).n + penalty - 1)]_vars

(***************************************************************************)
(* C13: the Absolute,X, Absolute,Y and Indirect,Y resolvers report, with   *)
(* the effective address, a page-crossed flag that is true iff (low byte   *)
(* of the base address) + index register > 0xFF; the Zeropage,X and        *)
(* Zeropage,Y resolvers never report a page crossing.                      *)
(***************************************************************************)
\* what the caller reads as the flag of a returned value: a value without
\* the property gives undefined, which counts as false
PageCrossed(returned) ==
    IF "pageCrossed" \in DOMAIN returned THEN returned.pageCrossed ELSE FALSE

C13_PageCrossedFlag ==
    LET mode == resolverCall.addressing_mode
        lo == resolverCall.operand1
        flag == PageCrossed(resolverCall.returned)
    IN  /\ mode = "abs,X" => (flag <=> lo + cpuRegisters.x > 255)
        /\ mode = "abs,Y" => (flag <=> lo + cpuRegisters.y > 255)
        /\ mode = "ind,Y" => (flag <=> Read(mainMemory, lo) + cpuRegisters.y > 255)
        /\ mode \in {"zpg,X", "zpg,Y"} => ~flag

SignBit(byte) == byte \div 128

SignedByte(byte) == IF byte >= 128 THEN byte - 256 ELSE byte

C14_OverflowFlag ==
    [][Dispatches({"ADC", "SBC"}) =>
          LET a == cpuRegisters.a
              m == OperandByte
              result == cpuRegisters'.a
              overflow == FlagSet(cpuRegisters'.status, 64)
              signed == IF Decoded.instruction_name = "ADC"
                        THEN SignedByte(a) + SignedByte(m) + CarryIn
                        ELSE SignedByte(a) - SignedByte(m) - (1 - CarryIn)
          IN  /\ Decoded.instruction_name = "ADC" =>
                    (overflow <=> (SignBit(a) = SignBit(m) /\ SignBit(result) # SignBit(a)))
              /\ Decoded.instruction_name = "SBC" =>
                    (overflow <=> (SignBit(a) # SignBit(m) /\ SignBit(result) # SignBit(a)))
              /\ overflow <=> (signed < -128 \/ signed > 127)]_vars

\* SBC # has run from a status with Overflow clear (Decimal, which SBC
\* leaves alone, shows it was 0x00 or 0x01) and set Overflow: a negative
\* accumulator became 0x7F
C14_Witness ==
    /\ lastInstruction.instruction_name = "SBC"
    /\ lastInstruction.addressing_mode = "#"
    /\ ~FlagSet(cpuRegisters.status, 8)
    /\ FlagSet(cpuRegisters.status, 64)
    /\ cpuRegisters.a = 127

\* a press of Step that finds one of the named instructions at pc
Executes(names) == Known /\ Decoded.instruction_name \in names

(***************************************************************************)
(* C18: for every accumulator value, every stack pointer (0x00 included,   *)
(* where the stack wraps) and every flag state, PHA followed by PLA, with  *)
(* instructions in between that change A or the flags but not the stack,   *)
(* restores A to the pushed value and SP to its value before PHA, and sets *)
(* Zero iff the restored value is 0 and Negative iff its bit 7 is set.     *)
(* In the push/pull programs Y holds the pushed value and X the SP before  *)
(* PHA.                                                                    *)
(***************************************************************************)
C18_PushPullRoundTrip ==
    [][Executes({"PLA"}) =>
          /\ cpuRegisters'.a = cpuRegisters.y
          /\ cpuRegisters'.sp = cpuRegisters.x
          /\ FlagSet(cpuRegisters'.status, 2) <=> (cpuRegisters.y = 0)
          /\ FlagSet(cpuRegisters'.status, 128) <=> (cpuRegisters.y >= 128)]_vars

\* PLA has run after LDA #$00 had replaced A and set Zero: the pushed 0x80
\* is back with Negative set and Zero clear, and SP is back at 0x00, the
\* byte having been stored at 0x0100 and SP having wrapped to 0xFF
C18_Witness ==
    /\ lastInstruction.instruction_name = "PLA"
    /\ Read(mainMemory, RomOrigin + 1) = 169
    /\ Read(mainMemory, RomOrigin + 2) = 0
    /\ cpuRegisters.a = 128
    /\ cpuRegisters.sp = 0
    /\ Read(mainMemory, 256) = 128
    /\ FlagSet(cpuRegisters.status, 128)
    /\ ~FlagSet(cpuRegisters.status, 2)

(***************************************************************************)
(* C19: for every address p of a 3-byte JSR and every stack pointer, JSR   *)
(* and then RTS leave pc = (p + 3) mod 65536 and SP as before the JSR; the *)
(* two bytes JSR pushed are the high byte, then the low byte, of p + 2.    *)
(* JSR $1234 at 0x0600 and then RTS gives pc = 0x0603. In the call         *)
(* programs A holds the number of the call site and X the SP before JSR.   *)
(***************************************************************************)
C19_CallReturnRoundTrip ==
    [][/\ Executes({"JSR"}) =>
             LET return == cpuRegisters.pc + 2
             IN  /\ Read(mainMemory', 256 + cpuRegisters.sp) = return \div 256
                 /\ Read(mainMemory', 256 + ((cpuRegisters.sp - 1) % 256)) = return % 256
                 /\ cpuRegisters'.sp = (cpuRegisters.sp - 2) % 256
       /\ (Executes({"RTS"}) /\ lastInstruction.instruction_name = "JSR") =>
             /\ cpuRegisters'.pc = (CallSites[cpuRegisters.a] + 3) % 65536
             /\ cpuRegisters'.sp = cpuRegisters.x]_vars

\* JSR $1234 at 0x0600 and RTS have run with SP = 0x00: pc is 0x0603, SP is
\* 0x00 again, and 0x06, 0x02 were stored at 0x0100 and 0x01FF
C19_Witness ==
    /\ lastInstruction.instruction_name = "RTS"
    /\ CallSites[cpuRegisters.a] = 1536
    /\ cpuRegisters.pc = 1539
    /\ cpuRegisters.sp = 0
    /\ Read(mainMemory, 256) = 6
    /\ Read(mainMemory, 511) = 2

(***************************************************************************)
(* C20: BRK dispatched at p pushes the high byte, then the low byte, of    *)
(* (p + 2) mod 65536, then the status byte with Break set, and loads pc    *)
(* from memory[0xFFFE] | memory[0xFFFF] << 8; the RTI that follows leaves  *)
(* pc = (p + 2) mod 65536, SP as before the BRK, and a status byte with    *)
(* Break and bit 5 clear and N, V, D, I, Z, C as before the BRK. In the    *)
(* break programs A holds the number of the break site, X the SP and Y the *)
(* status byte before BRK.                                                 *)
(***************************************************************************)
C20_BreakReturnRoundTrip ==
    [][/\ Executes({"BRK"}) =>
             LET return == (cpuRegisters.pc + 2) % 65536
                 sp == cpuRegisters.sp
             IN  /\ Read(mainMemory', 256 + sp) = return \div 256
                 /\ Read(mainMemory', 256 + ((sp - 1) % 256)) = return % 256
                 /\ Read(mainMemory', 256 + ((sp - 2) % 256)) =
                       BitOr(cpuRegisters.status, 16)
                 /\ cpuRegisters'.sp = (sp - 3) % 256
                 /\ cpuRegisters'.pc =
                       Read(mainMemory, 65534) + 256 * Read(mainMemory, 65535)
       /\ (Executes({"RTI"}) /\ lastInstruction.instruction_name = "BRK") =>
             /\ cpuRegisters'.pc = (BreakSites[cpuRegisters.a] + 2) % 65536
             /\ cpuRegisters'.sp = cpuRegisters.x
             /\ cpuRegisters'.status = BitClear(cpuRegisters.y, 48)]_vars

\* BRK at 0xFFFF and RTI have run from status 0xFF and SP = 0x01: pc is
\* 0x0001, SP is 0x01 again, the status is 0xCF, and the status byte was
\* pushed at 0x01FF after SP had wrapped
C20_Witness ==
    /\ lastInstruction.instruction_name = "RTI"
    /\ BreakSites[cpuRegisters.a] = 65535
    /\ cpuRegisters.pc = 1
    /\ cpuRegisters.sp = 1
    /\ cpuRegisters.status = 207
    /\ Read(mainMemory, 511) = 255

(***************************************************************************)
(* C21: loadRom copies the image bytes verbatim into memory so that the    *)
(* last byte of the image is at 0xFFFF, leaves every memory byte below the *)
(* load address unchanged, then sets pc to memory[0xFFFC] |                *)
(* memory[0xFFFD] << 8 and SP to 0xFF.                                     *)
(***************************************************************************)
\* romData[k]
RomByte(romData, k) == IF k \in DOMAIN romData.bytes THEN romData.bytes[k] ELSE 0

OperandAddress ==
    address_mode_handlers(Decoded.addressing_mode,
                          [cpuRegisters EXCEPT !.pc = @ + Decoded.size],
                          mainMemory, ArrayArgument(OperandBytes), NoArgument).val

(***************************************************************************)
(* C22: after each of LDA, LDX, LDY, TAX, TAY, TSX, TXA, TYA, PLA, INC,    *)
(* INX, INY, DEC, DEX, DEY, AND, ORA, EOR, ASL, LSR, ROL, ROR, ADC and SBC *)
(* the Zero flag is set iff the 8-bit result written to the register or    *)
(* memory byte is 0, and the Negative flag is set iff bit 7 of that result *)
(* is set, whatever the flags were before.                                 *)
(***************************************************************************)
AccumulatorResultNames == {"LDA", "TXA", "TYA", "PLA", "AND", "ORA", "EOR", "ADC", "SBC"}

XResultNames == {"LDX", "TAX", "TSX", "INX", "DEX"}

YResultNames == {"LDY", "TAY", "INY", "DEY"}

MemoryResultNames == {"INC", "DEC"}

ShiftNames == {"ASL", "LSR", "ROL", "ROR"}

C22_ZeroNegativeFlags ==
    [][Dispatches(AccumulatorResultNames \cup XResultNames \cup YResultNames
                    \cup MemoryResultNames \cup ShiftNames) =>
          LET name == Decoded.instruction_name
              result ==
                 CASE name \in AccumulatorResultNames -> cpuRegisters'.a
                   [] name \in XResultNames -> cpuRegisters'.x
                   [] name \in YResultNames -> cpuRegisters'.y
                   [] name \in MemoryResultNames -> Read(mainMemory', OperandAddress)
                   [] name \in ShiftNames ->
                         IF Decoded.addressing_mode = "A" THEN cpuRegisters'.a
                         ELSE Read(mainMemory', OperandAddress)
          IN  /\ result \in 0..255
              /\ FlagSet(cpuRegisters'.status, 2) <=> (result = 0)
              /\ FlagSet(cpuRegisters'.status, 128) <=> (result >= 128)]_vars

\* INC zpg has run on the byte at 0x24, which held 0xFF, from the status
\* 0xFF (Decimal and Overflow, which INC leaves alone, are set): the byte is
\* 0, Zero is set and Negative has been cleared
C22_Witness ==
    /\ lastInstruction.instruction_name = "INC"
    /\ lastInstruction.addressing_mode = "zpg"
    /\ Read(mainMemory, 36) = 0
    /\ FlagSet(cpuRegisters.status, 2)
    /\ ~FlagSet(cpuRegisters.status, 128)
    /\ FlagSet(cpuRegisters.status, 64)
    /\ FlagSet(cpuRegisters.status, 8)

(***************************************************************************)
(* C23: Carry is changed only by ADC, SBC, CMP, CPX, CPY, ASL, LSR, ROL,   *)
(* ROR, CLC, SEC, PLP and RTI, and Overflow only by ADC, SBC, BIT, CLV,    *)
(* PLP and RTI; every other instruction leaves both bits unchanged. Loads, *)
(* transfers, increments, decrements and AND, ORA, EOR change only Zero    *)
(* and Negative; STA, STX, STY, TXS, JMP, JSR, RTS, NOP, PHA and the       *)
(* branches change no status bit at all.                                   *)
(***************************************************************************)
CarryNames ==
    {"ADC", "SBC", "CMP", "CPX", "CPY", "ASL", "LSR", "ROL", "ROR", "CLC", "SEC",
     "PLP", "RTI"}

OverflowNames == {"ADC", "SBC", "BIT", "CLV", "PLP", "RTI"}

ZeroNegativeOnlyNames ==
    {"LDA", "LDX", "LDY", "TAX", "TAY", "TSX", "TXA", "TYA", "TXS",
     "INC", "INX", "INY", "DEC", "DEX", "DEY", "AND", "ORA", "EOR"}

NoFlagNames ==
    {"STA", "STX", "STY", "TXS", "JMP", "JSR", "RTS", "NOP", "PHA"} \cup BranchNames

AllNames == {opcode_matrix[opcode].instruction_name : opcode \in DOMAIN opcode_matrix}

C23_FlagFrame ==
    [][Dispatches(AllNames) =>
          LET name == Decoded.instruction_name
              before == cpuRegisters.status
              after == cpuRegisters'.status
          IN  /\ name \notin CarryNames => BitAnd(after, 1) = BitAnd(before, 1)
              /\ name \notin OverflowNames => BitAnd(after, 64) = BitAnd(before, 64)
              /\ name \in ZeroNegativeOnlyNames =>
                    BitClear(after, 130) = BitClear(before, 130)
              /\ name \in NoFlagNames => after = before]_vars

\* CLD has run from the status 0x41: Carry and Overflow are still set (Zero,
\* which CLD leaves alone, is clear: the status was not 0xFF)
C23_Witness ==
    /\ lastInstruction.instruction_name = "CLD"
    /\ cpuRegisters.status = 65

PushNames == {"PHA", "PHP", "JSR", "BRK"}

PopNames == {"PLA", "PLP", "RTS", "RTI"}

\* the address of the k-th push of an instruction dispatched with SP = sp
PushAddress(sp, k) == 256 + ((sp - (k - 1)) % 256)

\* the address of the k-th pop of an instruction dispatched with SP = sp
PopAddress(sp, k) == 256 + ((sp + k) % 256)

C25_StackDiscipline ==
    [][Dispatches(PushNames \cup PopNames) =>
          LET name == Decoded.instruction_name
              sp == cpuRegisters.sp
              count == CASE name \in {"PHA", "PHP", "PLA", "PLP"} -> 1
                         [] name \in {"JSR", "RTS"} -> 2
                         [] name \in {"BRK", "RTI"} -> 3
              return == (cpuRegisters.pc + 2) % 65536
              popped(k) == Read(mainMemory, PopAddress(sp, k))
          IN  /\ cpuRegisters'.sp \in 0..255
              /\ name \in PushNames =>
                    /\ cpuRegisters'.sp = (sp - count) % 256
                    /\ Read(mainMemory', PushAddress(sp, 1)) =
                          CASE name = "PHA" -> cpuRegisters.a
                            [] name = "PHP" -> cpuRegisters'.status
                            [] OTHER -> return \div 256
                    /\ count >= 2 => Read(mainMemory', PushAddress(sp, 2)) = return % 256
                    /\ count = 3 =>
                          Read(mainMemory', PushAddress(sp, 3)) = cpuRegisters'.status
                    /\ \A i \in (DOMAIN mainMemory \cup DOMAIN mainMemory')
                                   \ {PushAddress(sp, k) : k \in 1..count} :
                          Read(mainMemory', i) = Read(mainMemory, i)
                    /\ \A k \in 1..count : PushAddress(sp, k) \in 256..511
              /\ name \in PopNames =>
                    /\ cpuRegisters'.sp = (sp + count) % 256
                    /\ mainMemory' = mainMemory
                    /\ \A k \in 1..count : PopAddress(sp, k) \in 256..511
                    /\ name = "PLA" => cpuRegisters'.a = popped(1)
                    /\ name = "PLP" => cpuRegisters'.status = BitClear(popped(1), 48)
                    /\ name = "RTS" =>
                          cpuRegisters'.pc = (popped(1) + 256 * popped(2) + 1) % 65536
                    /\ name = "RTI" =>
                          /\ cpuRegisters'.status = BitClear(popped(1), 48)
                          /\ cpuRegisters'.pc = popped(2) + 256 * popped(3)]_vars

\* JSR has run with SP = 0x00: the high byte of the return address is at
\* 0x0100, the low byte at 0x01FF, and SP is 0xFE
C25_Witness ==
    /\ lastInstruction.instruction_name = "JSR"
    /\ cpuRegisters.sp = 254
    /\ Read(mainMemory, 256) = 192
    /\ Read(mainMemory, 511) = 2

(***************************************************************************)
(* C26: every status byte written to the stack, by PHP or by BRK, has      *)
(* bit 5 (the unused bit) set and bit 4 (Break) set, whatever the status   *)
(* register held before.                                                   *)
(***************************************************************************)
C26_PushedStatusBits ==
    [][Dispatches({"PHP", "BRK"}) =>
          LET pushed == IF Decoded.instruction_name = "PHP"
                        THEN Read(mainMemory', PushAddress(cpuRegisters.sp, 1))
                        ELSE Read(mainMemory', PushAddress(cpuRegisters.sp, 3))
          IN  BitAnd(pushed, 48) = 48]_vars

(***************************************************************************)
(* C27: the opcode table is well formed: all 56 mnemonics have at least    *)
(* one entry (an opcode byte has one entry, the table being keyed by it);  *)
(* every entry's mnemonic has an executor handler and its addressing-mode  *)
(* tag is one of the 13 modes with a resolver; every entry's size is 1 for *)
(* impl and A, 2 for #, zpg, zpg,X, zpg,Y, X,ind, ind,Y and rel, 3 for     *)
(* abs, abs,X, abs,Y and ind; and every entry carries a base cycle count   *)
(* that is a small positive integer.                                       *)
(***************************************************************************)
\* the mnemonics execute.js exports a handler for
HandlerNames ==
    {"ADC", "AND", "ASL", "BCC", "BCS", "BEQ", "BIT", "BMI", "BNE", "BPL", "BRK",
     "BVC", "BVS", "CLC", "CLD", "CLI", "CLV", "CMP", "CPX", "CPY", "DEC", "DEX",
     "DEY", "EOR", "INC", "INX", "INY", "JMP", "JSR", "LDA", "LDX", "LDY", "LSR",
     "NOP", "ORA", "PHA", "PHP", "PLA", "PLP", "ROL", "ROR", "RTI", "RTS", "SBC",
     "SEC", "SED", "SEI", "STA", "STX", "STY", "TAX", "TAY", "TSX", "TXA", "TXS",
     "TYA"}

SizeOfMode(addressing_mode) ==
    CASE addressing_mode \in {"impl", "A"} -> 1
      [] addressing_mode \in {"#", "zpg", "zpg,X", "zpg,Y", "X,ind", "ind,Y", "rel"} -> 2
      [] addressing_mode \in {"abs", "abs,X", "abs,Y", "ind"} -> 3

WellFormedEntry(instruction) ==
    /\ instruction.instruction_name \in HandlerNames
    /\ instruction.addressing_mode \in ResolveModes
    /\ instruction.size = SizeOfMode(instruction.addressing_mode)
    /\ Cycles(instruction).type = "number"
    /\ Cycles(instruction).n \in 1..7     \* 7 is the 6502's largest base count

\* the table as a whole, and the entry the page finds for the byte at pc
C27_OpcodeTable ==
    /\ Cardinality(HandlerNames) = 56
    /\ AllNames = HandlerNames
    /\ DOMAIN opcode_matrix \subseteq 0..255
    /\ \A opcode \in DOMAIN opcode_matrix : WellFormedEntry(opcode_matrix[opcode])
    /\ Known => WellFormedEntry(Decoded)

(***************************************************************************)
(* C28: INX sets X to (X + 1) mod 256 and INY sets Y to (Y + 1) mod 256    *)
(* (0xFF wraps to 0x00); consequently INX followed by DEX restores X and   *)
(* INY followed by DEY restores Y, for every starting value.               *)
(***************************************************************************)
C28_IncrementRegisters ==
    [][/\ Dispatches({"INX"}) => cpuRegisters'.x = (cpuRegisters.x + 1) % 256
       /\ Dispatches({"INY"}) => cpuRegisters'.y = (cpuRegisters.y + 1) % 256]_vars

(***************************************************************************)
(* C29: for every accumulator value a and memory operand m, BIT sets Zero  *)
(* iff (a AND m) = 0, copies bit 7 of m into the Negative flag and bit 6   *)
(* of m into the Overflow flag, and leaves A, X, Y, Carry and memory       *)
(* unchanged.                                                              *)
(***************************************************************************)
C29_BitTest ==
    [][Dispatches({"BIT"}) =>
          LET m == OperandByte
          IN  /\ FlagSet(cpuRegisters'.status, 2) <=> (BitAnd(cpuRegisters.a, m) = 0)
              /\ FlagSet(cpuRegisters'.status, 128) <=> (m >= 128)
              /\ FlagSet(cpuRegisters'.status, 64) <=> (BitAnd(m, 64) # 0)
              /\ cpuRegisters'.a = cpuRegisters.a
              /\ cpuRegisters'.x = cpuRegisters.x
              /\ cpuRegisters'.y = cpuRegisters.y
              /\ BitAnd(cpuRegisters'.status, 1) = BitAnd(cpuRegisters.status, 1)
              /\ mainMemory' = mainMemory]_vars

(***************************************************************************)
(* C30: PHP pushes a copy of the status flags: after PHP the status        *)
(* register is identical to its value before PHP, only one stack byte and  *)
(* SP change; consequently PHP followed by PLP leaves the status register  *)
(* and SP exactly as they were before PHP.                                 *)
(***************************************************************************)
C30_PushStatusKeepsStatus ==
    [][Dispatches({"PHP"}) =>
          /\ cpuRegisters'.status = cpuRegisters.status
          /\ cpuRegisters'.sp = (cpuRegisters.sp - 1) % 256
          /\ [cpuRegisters' EXCEPT !.sp = 0, !.pc = 0] =
                [cpuRegisters EXCEPT !.sp = 0, !.pc = 0]
          /\ \A i \in (DOMAIN mainMemory \cup DOMAIN mainMemory')
                         \ {PushAddress(cpuRegisters.sp, 1)} :
                Read(mainMemory', i) = Read(mainMemory, i)]_vars

(***************************************************************************)
(* C31: after a call of loadRom has run to its end, the very next tick     *)
(* dispatches the instruction at the reset-vector address, whatever the    *)
(* state before the load was (an instruction's countdown in progress, the  *)
(* run timer active, a decode error): the load leaves pc at the reset      *)
(* vector and the loop Idle, and a tick that finds the loop Idle on a byte *)
(* the table knows dispatches that instruction.                            *)
(***************************************************************************)
ResetVector(mem) == BitOr(Read(mem, 65532), Read(mem, 65533) * 256)

\* a step in which a call of loadRom has run to its end
LoadCompletes ==
    /\ LoadStep
    /\ romLoaded'
    /\ ~updateprogramDisplayThrows(cpuRegisters')

C31_LoadThenDispatch ==
    [][/\ LoadCompletes =>
             /\ cpuRegisters'.pc = ResetVector(mainMemory')
             /\ Idle'
       /\ (Tick /\ Idle /\ Known) =>
             /\ cpuRegisters' =
                    execute(Decoded.instruction_name,
                            [cpuRegisters EXCEPT !.pc = @ + Decoded.size],
                            mainMemory,
                            address_mode_handlers(
                                Decoded.addressing_mode,
                                [cpuRegisters EXCEPT !.pc = @ + Decoded.size],
                                mainMemory, ArrayArgument(OperandBytes),
                                NoArgument)).cpu
             /\ currentInstructionCycles' # currentInstructionCycles]_vars

(***************************************************************************)
(* C32: in every reachable state the remaining-cycle counter is an integer *)
(* from 0 to the largest cycle cost of an instruction (7 on the 6502), and *)
(* whenever it is 0 the total cycle counter is the sum of the costs of the *)
(* instructions dispatched so far: 0 as long as none has been dispatched.  *)
(***************************************************************************)
C32_CounterInvariant ==
    /\ currentInstructionCycles.type = "number"
    /\ currentInstructionCycles.n \in 0..7
    /\ (Idle /\ lastInstruction = NoInstruction) => totalCycles = 0

(***************************************************************************)
(* C33: under any interleaving of the Run, Stop, Step, Cycle and Load      *)
(* events and the timer callbacks, the browser holds at most one run timer *)
(* and holds one exactly when the page keeps its handle: Run with a timer  *)
(* active starts no second one, and after Stop there is no timer left to   *)
(* tick until Run starts one.  Every tick runs to its end before another   *)
(* handler runs: a step that moves the counters is one whole cpuCycle call *)
(* (or the Step loop) on the state before it and loads nothing, and a step *)
(* that loads a program moves no counter.                                  *)
(***************************************************************************)
C33_OneRunTimer ==
    [][/\ activeTimers' \in {0, 1}
       /\ (runInterval' = "null") <=> (activeTimers' = 0)
       /\ (runInterval # "null" /\ runInterval' # "null") =>
             activeTimers' = activeTimers
       /\ Tick =>
             /\ romLoaded
             /\ Core' \in {cpuCycle(Core).m, stepLoop(Core)}
             /\ UNCHANGED <<romLoaded, runInterval, activeTimers>>
       /\ (~Tick /\ mainMemory' # mainMemory) =>
             \E romData \in Roms :
                mainMemory' = SetMemory(mainMemory, romData, MemSize - romData.length)]_vars

\* the timer Run started is the only one, and ticks have gone by since a
\* program was loaded
C33_Witness ==
    /\ runInterval = "timer"
    /\ activeTimers = 1
    /\ totalCycles >= 2
    /\ lastInstruction # NoInstruction

Dispatched ==
    execute(Decoded.instruction_name,
            [cpuRegisters EXCEPT !.pc = @ + Decoded.size], mainMemory,
            address_mode_handlers(Decoded.addressing_mode,
                                  [cpuRegisters EXCEPT !.pc = @ + Decoded.size],
                                  mainMemory, ArrayArgument(OperandBytes),
                                  NoArgument))

\* a step that is a press of Step: it ends where the do-while loop ends
StepPress ==
    /\ romLoaded
    /\ Tick
    /\ Core' = stepLoop(Core)

C35_StepReturnsAtBoundary ==
    [][StepPress =>
          /\ Idle'
          /\ (Idle /\ Known) => State(cpuRegisters', mainMemory') = Dispatched
          /\ ~Idle => UNCHANGED <<cpuRegisters, mainMemory, lastInstruction>>]_vars

(***************************************************************************)
(* C36: for every value v of the target in 0..255 and every carry c, ROL   *)
(* followed by ROR on the same target (the accumulator or one memory byte) *)
(* restores v and c, and so does ROR followed by ROL; nine ROLs in a row,  *)
(* or nine RORs, bring the nine bits (Carry, value) back to where they     *)
(* started.  In the rotation programs X holds v and Y holds c, and the     *)
(* program has run to its end when pc is at its last byte, which has no    *)
(* table entry.                                                            *)
(***************************************************************************)
\* the byte the program rotates
Rotated ==
    IF Read(mainMemory, RomOrigin) \in {42, 106}
    THEN cpuRegisters.a
    ELSE Read(mainMemory, RotateTarget)

====
